---- MODULE Spec2Model ----
(***************************************************************************)
(* NewsTracker: the in-memory topic tracker (news/tracker/news_tracker.py), *)
(* the feed layer it polls, the JSON-backed store                           *)
(* (news/storage/repository.py) with its freshness classifier, and the      *)
(* read paths of the API and the notifier.                                  *)
(*                                                                          *)
(* Text is a sequence of one-character strings, so that lower(), split(),   *)
(* strip() and the alnum filter are computed character by character.        *)
(* A published timestamp is the ISO-8601 UTC string of a minute, written as *)
(* that minute's number (ISO strings of one format order as their instants  *)
(* do); NoPub is Python's None.                                             *)
(***************************************************************************)
EXTENDS Integers, Sequences, FiniteSets, TLC

VARIABLES
    feeds,          \* NewsTracker.feeds: topic -> list of bound feeds
    all_news,       \* NewsTracker.all_news: topic -> list of admitted items
    seen_links,     \* NewsTracker.seen_links: topic -> set of links
    last_fetched,   \* NewsTracker.last_fetched: topic -> last sweep's batch
    lsh_index,      \* NewsTracker.lsh_index: topic -> (id -> signature)
    minhashes,      \* NewsTracker.minhashes: topic -> (id -> signature)
    _next_id,       \* NewsTracker._next_id
    last_updated,   \* NewsTracker.last_updated
    job,            \* per caller of update_all: its position and topic snapshot
    sweep,          \* per (caller, topic): the position of update_topic
    api,            \* the call of the tracker answered by the last step
    rm,             \* per request thread: the position of remove_topic
    _lock,          \* NewsTracker._lock: the sweep holding it, or NoHolder
    db,             \* the persisted corpus: normalized title -> NewsItem
    db_keys,        \* the keys of the corpus in the order of the file
    cls,            \* classify_pending_news: its position and locals
    now,            \* the wall clock, in minutes
    ret,            \* the last store/notifier call and what it returned
    db_lock,        \* repository.db_lock: the caller holding it, or NoHolder
    call,           \* per caller of the store: its operation and what it loaded
    raw,            \* the corpus file while it is not one that save_db wrote
    probe,          \* the (published, now) pair handed to the classifier
    _CACHE,         \* feeds/google.py _CACHE: key -> expiry and article list
    fetch,          \* per calling thread: the position of GoogleNewsFeed.fetch
    clock,          \* time.time(), in seconds
    served,         \* the last fetch call and how it was answered
    succeeded       \* per key: the latest fetch whose request succeeded

trackerVars == <<feeds, all_news, seen_links, last_fetched, lsh_index,
                 minhashes, _next_id, last_updated, job, sweep, api, rm, _lock>>

\* The store's lock, its callers between load and save, and a foreign file.
lockVars == <<db_lock, call, raw>>

storeVars == <<db, db_keys, cls, now, ret, lockVars>>

\* The feed layer's cache, its callers and its clock.
feedVars == <<_CACHE, fetch, clock, served, succeeded>>

vars == <<feeds, all_news, seen_links, last_fetched, lsh_index, minhashes,
          _next_id, last_updated, job, sweep, api, rm, _lock, db, db_keys, cls, now,
          ret, db_lock, call, raw, probe, feedVars>>

-----------------------------------------------------------------------------
(* Bounds of the model.                                                     *)

\* news_tracker.py:9 sets 500; the cap is scaled so that eviction happens.
_MAX_ITEMS_PER_TOPIC == 2

\* update_topic's default limit is 10 (news_tracker.py:56); scaled likewise.
DefaultLimit == 2

\* The id counter is capped: a feed returns no more new links than ids are left.
MaxId == 3

(* Program constants.                                                       *)
_MAX_TOPIC_WORKERS == 4
_MAX_FETCH_WORKERS == 8
MaxTokens == 64
FreshMinutes == 30
NewMinutes == 360
WindowMinutes == 120

\* Python's None for an Optional[str] timestamp; as a sort key it is "" and
\* sorts below every timestamp.
NoPub == -1

\* A published string datetime.fromisoformat rejects.
BadPub == -2

Topics == {"t1", "t2"}

\* The callers of update_all: the interval job and the force-update endpoint.
JobIds == {"sched", "force"}

\* More of the topics registered when the API module is loaded
\* (THEME_REGION_DEFAULT has 21; one more than update_all's pool has threads
\* is what matters).
DefaultTopics == {"d1", "d2", "d3"}

AllTopics == Topics \cup DefaultTopics

\* The regions a topic is registered with; add_topic's default is the first.
Regions == {"US", "BR"}

\* The request threads that run remove_topic.
Removers == {"r1", "r2"}

Sweeps == JobIds \X AllTopics

-----------------------------------------------------------------------------
(* Text.                                                                    *)

\* str.lower on the characters of the model's alphabet.
Lower(c) ==
    CASE c = "A" -> "a"
      [] c = "B" -> "b"
      [] c = "C" -> "c"
      [] c = "N" -> "n"
      [] OTHER -> c

IsSpace(c) == c = " "

IsAlnum(c) ==
    c \in {"A", "B", "C", "N", "a", "b", "c", "n", "o", "e", "u",
           "1", "2", "3", "4", "5", "9"}

LowerSeq(s) == [i \in 1..Len(s) |-> Lower(s[i])]

RECURSIVE LStrip(_)
LStrip(s) ==
    IF s # <<>> /\ IsSpace(Head(s)) THEN LStrip(Tail(s)) ELSE s

RECURSIVE RStrip(_)
RStrip(s) ==
    IF s # <<>> /\ IsSpace(s[Len(s)]) THEN RStrip(SubSeq(s, 1, Len(s) - 1)) ELSE s

\* str.strip()
Strip(s) == RStrip(LStrip(s))

\* str.split(): the maximal runs of non-space characters, in order.
RECURSIVE SplitFrom(_, _, _)
SplitFrom(s, word, acc) ==
    IF s = <<>>
    THEN IF word = <<>> THEN acc ELSE Append(acc, word)
    ELSE IF IsSpace(Head(s))
         THEN SplitFrom(Tail(s), <<>>, IF word = <<>> THEN acc ELSE Append(acc, word))
         ELSE SplitFrom(Tail(s), Append(word, Head(s)), acc)

Split(s) == SplitFrom(s, <<>>, <<>>)

RECURSIVE KeepAlnumSpace(_)
KeepAlnumSpace(s) ==
    IF s = <<>> THEN <<>>
    ELSE IF IsAlnum(Head(s)) \/ IsSpace(Head(s))
         THEN <<Lower(Head(s))>> \o KeepAlnumSpace(Tail(s))
         ELSE KeepAlnumSpace(Tail(s))

\* repository.normalize
normalize(text) == Strip(KeepAlnumSpace(text))

Min(a, b) == IF a <= b THEN a ELSE b

Range(s) == {s[i] : i \in 1..Len(s)}

\* dict helpers
Put(f, k, v) == [x \in DOMAIN f \cup {k} |-> IF x = k THEN v ELSE f[x]]

Del(f, k) == [x \in DOMAIN f \ {k} |-> f[x]]

EmptyMap == [x \in {} |-> {}]

-----------------------------------------------------------------------------
(* Sorting: list.sort(key=lambda x: x.get("published") or "", reverse=True) *)
(* is a stable sort, so items of equal key keep their order.                *)

SortKey(x) == x.published

RECURSIVE InsertDesc(_, _)
InsertDesc(sorted, x) ==
    IF sorted = <<>> THEN <<x>>
    ELSE IF SortKey(Head(sorted)) >= SortKey(x)
         THEN <<Head(sorted)>> \o InsertDesc(Tail(sorted), x)
         ELSE <<x>> \o sorted

RECURSIVE SortDescFrom(_, _)
SortDescFrom(rest, acc) ==
    IF rest = <<>> THEN acc
    ELSE SortDescFrom(Tail(rest), InsertDesc(acc, Head(rest)))

SortDesc(s) == SortDescFrom(s, <<>>)

Take(s, n) == SubSeq(s, 1, Min(n, Len(s)))

-----------------------------------------------------------------------------
(* Raw articles, as a feed returns them (feeds/google.py:110-117).          *)

\* "summary": entry.get("summary") may be None.
NoneSummary == <<"None">>

Raw(title, summary, link, published) ==
    [title |-> title, summary |-> summary, link |-> link, published |-> published]

ArtAb == Raw(<<"A", " ", "b">>, <<>>, "u1", 20)

\* Same words as ArtAb in another case, another link, undated.
ArtaB == Raw(<<"a", " ", "B">>, <<>>, "u2", NoPub)

ArtC == Raw(<<"c">>, NoneSummary, "u3", 30)

\* Same link as ArtAb, other words.
ArtB == Raw(<<"B", "!">>, <<>>, "u1", 30)

\* ArtAb with a trailing word added.
ArtAbc == Raw(<<"A", " ", "b", " ", "c">>, <<>>, "u4", 10)

\* An entry without a link.
ArtNoLink == Raw(<<"c">>, <<>>, "", 20)

\* What a fetch can return: the feed of topic t1 is the busy one, the feed of
\* t2 has one story to tell.
FeedResponses(t) ==
    IF t = "t1"
    THEN { <<>>,
           <<ArtAb, ArtAbc, ArtC>>,
           <<ArtAb, ArtaB>>,
           <<ArtB, ArtAb>>,
           <<ArtNoLink, ArtC>> }
    ELSE { <<>>,
           <<ArtB, ArtAb>> }

-----------------------------------------------------------------------------
(* The near-duplicate index.                                                *)

\* f"{item.get('title','')} {item.get('summary','')}".strip()
ItemText(item) ==
    Strip(item.title \o <<" ">> \o
          (IF item.summary = NoneSummary THEN <<"N", "o", "n", "e">> ELSE item.summary))

\* NewsTracker._build_minhash: the sketch of the set of the first 64 lowercased
\* tokens.  Equal token sets give equal sketches; the sketch is written as the
\* token set it was folded from.  (The lowered text is bound once, as the
\* value of text.lower(), before it is split.)
_build_minhash(text) ==
    CHOOSE m \in {Range(Take(Split(lowered), MaxTokens)) : lowered \in {LowerSeq(text)}} : TRUE

\* MinHashLSH.query(m) is non-empty when some indexed sketch shares a whole
\* band with m.  Equal sketches share every band; sketches of token sets that
\* share a token share a band with a probability strictly between 0 and 1, so
\* either answer can come back; sketches of disjoint token sets share none.
QueryOutcomes(index, m) ==
    IF \E k \in DOMAIN index : index[k] = m THEN {TRUE}
    ELSE IF \E k \in DOMAIN index : index[k] \cap m # {} THEN {TRUE, FALSE}
    ELSE {FALSE}

-----------------------------------------------------------------------------
(* NewsTracker                                                              *)

\* update_topic's locals (workers: the size of its pool; nfut: futures not yet
\* consumed; nrun: fetches a pool thread is executing; queue: the rest of the
\* list being looped over; cur: the item between check and append; fresh;
\* lst: the list _prune_topic_memory read), with the length of the topic's
\* list when the sweep began (base), the items the consumed futures returned
\* (got) and what became of each future and item so far (log).
IdleSweep ==
    [pc |-> "idle", workers |-> 0, nfut |-> 0, nrun |-> 0, queue |-> <<>>,
     cur |-> <<>>, fresh |-> <<>>, lst |-> <<>>, base |-> 0, got |-> <<>>,
     log |-> <<>>]

\* update_all's locals: the snapshot of the topics, those not yet taken by a
\* pool thread, and the size of the pool.
IdleJob == [pc |-> "idle", topics |-> {}, pending |-> {}, n |-> 0]

\* No call of the topic API yet.
NoCall == [op |-> "none", topic |-> "", result |-> "none"]

\* A remove_topic request that is not in progress.
IdleRemove == [pc |-> "idle", topic |-> ""]

\* news_tracker.py:26: the one Lock of the tracker, held by nobody.
NoHolder == <<>>

TrackerInit ==
    /\ feeds = EmptyMap
    /\ all_news = EmptyMap
    /\ seen_links = EmptyMap
    /\ last_fetched = EmptyMap
    /\ lsh_index = EmptyMap
    /\ minhashes = EmptyMap
    /\ _next_id = 0
    /\ _lock = NoHolder
    /\ last_updated = NoPub
    /\ job = [j \in JobIds |-> IdleJob]
    /\ sweep = [s \in Sweeps |-> IdleSweep]
    /\ api = NoCall
    /\ rm = [r \in Removers |-> IdleRemove]

\* GoogleNewsFeed(topic, max_items, verify, region)
GoogleNewsFeed(topic, region) == [kind |-> "google", query |-> topic, region |-> region]

\* GdeltFeed(topic, max_items, verify, region), the binding left commented out
\* in add_topic.
GdeltFeed(topic, region) == [kind |-> "gdelt", query |-> topic, region |-> region]

\* A registration that rebuilds the topic whether or not it is registered.
AddTopicNoCheck(t, region) ==
    /\ feeds' = Put(feeds, t, <<GoogleNewsFeed(t, region)>>)
    /\ all_news' = Put(all_news, t, <<>>)
    /\ seen_links' = Put(seen_links, t, {})
    /\ last_fetched' = Put(last_fetched, t, <<>>)
    /\ lsh_index' = Put(lsh_index, t, EmptyMap)
    /\ minhashes' = Put(minhashes, t, EmptyMap)
    /\ api' = [op |-> "add_topic", topic |-> t,
               result |-> IF t \in DOMAIN feeds THEN "exists" ELSE "success"]
    /\ UNCHANGED <<_next_id, last_updated, job, sweep, rm, _lock, storeVars, probe, feedVars>>

\* A registration that keeps the index and the signatures a removal left.
AddTopicKeepsIndex(t, region) ==
    /\ IF t \in DOMAIN feeds
       THEN UNCHANGED <<feeds, all_news, seen_links, last_fetched, lsh_index, minhashes>>
       ELSE /\ feeds' = Put(feeds, t, <<GoogleNewsFeed(t, region)>>)
            /\ all_news' = Put(all_news, t, <<>>)
            /\ seen_links' = Put(seen_links, t, {})
            /\ last_fetched' = Put(last_fetched, t, <<>>)
            /\ lsh_index' = IF t \in DOMAIN lsh_index THEN lsh_index
                            ELSE Put(lsh_index, t, EmptyMap)
            /\ minhashes' = IF t \in DOMAIN minhashes THEN minhashes
                            ELSE Put(minhashes, t, EmptyMap)
    /\ api' = [op |-> "add_topic", topic |-> t,
               result |-> IF t \in DOMAIN feeds THEN "exists" ELSE "success"]
    /\ UNCHANGED <<_next_id, last_updated, job, sweep, rm, _lock, storeVars, probe, feedVars>>

\* NewsTracker.add_topic behind the add-topic endpoint (api/main.py:255-258).
add_topic(t, region) ==
    /\ IF t \in DOMAIN feeds
       THEN UNCHANGED <<feeds, all_news, seen_links, last_fetched, lsh_index, minhashes>>
       ELSE /\ feeds' = Put(feeds, t, <<GoogleNewsFeed(t, region)>>)
            /\ all_news' = Put(all_news, t, <<>>)
            /\ seen_links' = Put(seen_links, t, {})
            /\ last_fetched' = Put(last_fetched, t, <<>>)
            /\ lsh_index' = Put(lsh_index, t, EmptyMap)
            /\ minhashes' = Put(minhashes, t, EmptyMap)
    /\ api' = [op |-> "add_topic", topic |-> t,
               result |-> IF t \in DOMAIN feeds THEN "exists" ELSE "success"]
    /\ UNCHANGED <<_next_id, last_updated, job, sweep, rm, _lock, storeVars, probe, feedVars>>

\* api/main.py remove_topic run from its first line to its last with nothing
\* in between: 404 for an unknown topic, else four dels.
remove_topic(t) ==
    /\ IF t \in DOMAIN feeds
       THEN /\ feeds' = Del(feeds, t)
            /\ all_news' = Del(all_news, t)
            /\ seen_links' = Del(seen_links, t)
            /\ last_fetched' = Del(last_fetched, t)
            /\ api' = [op |-> "remove_topic", topic |-> t, result |-> "success"]
       ELSE /\ UNCHANGED <<feeds, all_news, seen_links, last_fetched>>
            /\ api' = [op |-> "remove_topic", topic |-> t, result |-> "NotFound"]
    /\ UNCHANGED <<lsh_index, minhashes, _next_id, last_updated, job, sweep, rm,
                   _lock, storeVars, probe, feedVars>>

\* remove_topic's first line in a request thread (api/main.py:283-284).
RemoveCheck(r, t) ==
    /\ rm[r].pc = "idle"
    /\ IF t \in DOMAIN feeds
       THEN /\ rm' = [rm EXCEPT ![r] = [pc |-> "del_feeds", topic |-> t]]
            /\ api' = NoCall
       ELSE /\ api' = [op |-> "remove_topic", topic |-> t, result |-> "NotFound"]
            /\ UNCHANGED rm
    /\ UNCHANGED <<feeds, all_news, seen_links, last_fetched, lsh_index, minhashes,
                   _next_id, last_updated, job, sweep, _lock, storeVars, probe, feedVars>>

\* One del of remove_topic (api/main.py:286-289) on the dict d: del d[topic]
\* raises KeyError when the key is gone, which ends the request; the last del
\* is followed by the answer.
RemoveStep(r, d, next) ==
    LET t == rm[r].topic IN
    /\ rm' = [rm EXCEPT ![r] = IF t \in DOMAIN d /\ next # "idle"
                               THEN [pc |-> next, topic |-> t]
                               ELSE IdleRemove]
    /\ api' = IF t \notin DOMAIN d
              THEN [op |-> "remove_topic", topic |-> t, result |-> "KeyError"]
              ELSE IF next = "idle"
              THEN [op |-> "remove_topic", topic |-> t, result |-> "success"]
              ELSE NoCall

\* The next of remove_topic's four dels (api/main.py:286-289).
RemoveDel(r) ==
    LET t == rm[r].topic IN
    /\ rm[r].pc # "idle"
    /\ CASE rm[r].pc = "del_feeds" ->
              /\ feeds' = IF t \in DOMAIN feeds THEN Del(feeds, t) ELSE feeds
              /\ RemoveStep(r, feeds, "del_all_news")
              /\ UNCHANGED <<all_news, seen_links, last_fetched>>
         [] rm[r].pc = "del_all_news" ->
              /\ all_news' = IF t \in DOMAIN all_news THEN Del(all_news, t) ELSE all_news
              /\ RemoveStep(r, all_news, "del_seen_links")
              /\ UNCHANGED <<feeds, seen_links, last_fetched>>
         [] rm[r].pc = "del_seen_links" ->
              /\ seen_links' = IF t \in DOMAIN seen_links THEN Del(seen_links, t) ELSE seen_links
              /\ RemoveStep(r, seen_links, "del_last_fetched")
              /\ UNCHANGED <<feeds, all_news, last_fetched>>
         [] rm[r].pc = "del_last_fetched" ->
              /\ last_fetched' = IF t \in DOMAIN last_fetched THEN Del(last_fetched, t) ELSE last_fetched
              /\ RemoveStep(r, last_fetched, "idle")
              /\ UNCHANGED <<feeds, all_news, seen_links>>
    /\ UNCHANGED <<lsh_index, minhashes, _next_id, last_updated, job, sweep,
                   _lock, storeVars, probe, feedVars>>

\* NewsTracker.get_all_news(topic)
allKnown(t) == IF t \in DOMAIN all_news THEN all_news[t] ELSE <<>>

\* NewsTracker.get_last_news(topic)
get_last_news(t) == IF t \in DOMAIN last_fetched THEN last_fetched[t] ELSE <<>>

\* A prune that keeps one item too many.
PruneOffByOne(lst) ==
    IF Len(lst) > _MAX_ITEMS_PER_TOPIC THEN SubSeq(lst, 1, _MAX_ITEMS_PER_TOPIC + 1) ELSE lst

\* A prune that keeps the tail of the sorted list.
PruneKeepsTail(lst) ==
    IF Len(lst) > _MAX_ITEMS_PER_TOPIC
    THEN SubSeq(lst, Len(lst) - _MAX_ITEMS_PER_TOPIC + 1, Len(lst)) ELSE lst

\* NewsTracker._prune_topic_memory, on the list it is given.
_prune_topic_memory(lst) ==
    IF Len(lst) > _MAX_ITEMS_PER_TOPIC THEN SubSeq(lst, 1, _MAX_ITEMS_PER_TOPIC) ELSE lst

\* The sweeps of a caller that occupy a thread of its pool.
Running(j) == {t \in AllTopics : sweep[<<j, t>>].pc \notin {"idle", "done", "raised"}}

\* The links of a list that the topic has not seen yet.
NewLinks(items, t) ==
    {items[i].link : i \in 1..Len(items)} \ ({""} \cup (IF t \in DOMAIN seen_links THEN seen_links[t] ELSE {}))

\* Ids that sweeps in flight may still take.
Outstanding ==
    LET owed(s) == Cardinality(NewLinks(sweep[s].queue, s[2]))
                   + (IF sweep[s].pc \in {"insert", "locked", "numbered"} THEN 1 ELSE 0)
        RECURSIVE Sum(_)
        Sum(S) == IF S = {} THEN 0
                  ELSE LET s == CHOOSE x \in S : TRUE IN owed(s) + Sum(S \ {s})
    IN  Sum(Sweeps)

\* Where update_topic goes once the current item is dealt with: the next item
\* of this source, the next completed future, or the sort after the loop.
AfterItem(queue, nfut) ==
    IF queue # <<>> THEN "item" ELSE IF nfut > 0 THEN "fetch" ELSE "finish"

\* update_all, up to the submission of the topics (news_tracker.py:108-116).
UpdateAllStart(j) ==
    /\ job[j].pc = "idle"
    /\ IF DOMAIN feeds = {}
       THEN /\ last_updated' = now
            /\ UNCHANGED job
       ELSE /\ job' = [job EXCEPT ![j] = [pc |-> "running", topics |-> DOMAIN feeds,
                                          pending |-> DOMAIN feeds,
                                          n |-> Cardinality(DOMAIN feeds)]]
            /\ UNCHANGED last_updated
    /\ api' = NoCall
    /\ UNCHANGED <<feeds, all_news, seen_links, last_fetched, lsh_index, minhashes,
                   _next_id, sweep, rm, _lock, storeVars, probe, feedVars>>

\* A pool that hands a submitted topic to a thread whenever one is submitted.
SweepStartUnbounded(j, t) ==
    /\ job[j].pc = "running"
    /\ t \in job[j].pending
    /\ job' = [job EXCEPT ![j].pending = @ \ {t}]
    /\ sweep' = [sweep EXCEPT ![<<j, t>>] =
                    IF t \notin DOMAIN feeds \/ feeds[t] = <<>>
                    THEN [IdleSweep EXCEPT !.pc = "done"]
                    ELSE [IdleSweep EXCEPT !.pc = "fetch",
                                           !.workers = Min(Len(feeds[t]), _MAX_FETCH_WORKERS),
                                           !.nfut = Len(feeds[t]),
                                           !.nrun = Min(Len(feeds[t]), _MAX_FETCH_WORKERS),
                                           !.base = Len(allKnown(t))]]
    /\ api' = NoCall
    /\ UNCHANGED <<feeds, all_news, seen_links, last_fetched, lsh_index, minhashes,
                   _next_id, last_updated, rm, _lock, storeVars, probe, feedVars>>

\* A thread of update_all's pool, of min(len(topics), 4) threads, takes a
\* submitted topic and enters update_topic (news_tracker.py:57-65, 115-116).
SweepStart(j, t) ==
    /\ job[j].pc = "running"
    /\ t \in job[j].pending
    /\ Cardinality(Running(j)) < Min(job[j].n, _MAX_TOPIC_WORKERS)
    /\ job' = [job EXCEPT ![j].pending = @ \ {t}]
    /\ sweep' = [sweep EXCEPT ![<<j, t>>] =
                    IF t \notin DOMAIN feeds \/ feeds[t] = <<>>
                    THEN [IdleSweep EXCEPT !.pc = "done"]
                    ELSE [IdleSweep EXCEPT !.pc = "fetch",
                                           !.workers = Min(Len(feeds[t]), _MAX_FETCH_WORKERS),
                                           !.nfut = Len(feeds[t]),
                                           !.nrun = Min(Len(feeds[t]), _MAX_FETCH_WORKERS),
                                           !.base = Len(allKnown(t))]]
    /\ api' = NoCall
    /\ UNCHANGED <<feeds, all_news, seen_links, last_fetched, lsh_index, minhashes,
                   _next_id, last_updated, rm, _lock, storeVars, probe, feedVars>>

\* An exception leaves update_topic: a KeyError inside the loop first waits,
\* at the end of the with block, for the fetches still submitted.
Raised(sw) ==
    [sw EXCEPT !.pc = IF sw.nfut > 0 THEN "unwind" ELSE "raised",
               !.queue = <<>>, !.cur = <<>>]

\* A fetch whose exception ends the sweep.
FetchFailureAborts(sw, raised, items) ==
    IF sw.pc = "unwind"
    THEN [sw EXCEPT !.nfut = @ - 1, !.nrun = Min(sw.workers, sw.nfut - 1),
                    !.pc = IF sw.nfut = 1 THEN "raised" ELSE "unwind"]
    ELSE IF raised
    THEN [sw EXCEPT !.nfut = @ - 1, !.nrun = Min(sw.workers, sw.nfut - 1),
                    !.pc = IF sw.nfut = 1 THEN "raised" ELSE "unwind"]
    ELSE [sw EXCEPT !.nfut = @ - 1, !.nrun = Min(sw.workers, sw.nfut - 1),
                    !.queue = items,
                    !.got = @ \o items,
                    !.pc = AfterItem(items, sw.nfut - 1)]

\* The next future completes (news_tracker.py:66-71): the feed raised, which
\* is printed and skipped, or returned a list.
Fetched(sw, raised, items) ==
    IF sw.pc = "unwind"
    THEN [sw EXCEPT !.nfut = @ - 1, !.nrun = Min(sw.workers, sw.nfut - 1),
                    !.pc = IF sw.nfut = 1 THEN "raised" ELSE "unwind"]
    ELSE IF raised
    THEN [sw EXCEPT !.nfut = @ - 1, !.nrun = Min(sw.workers, sw.nfut - 1),
                    !.log = Append(@, "error"),
                    !.pc = AfterItem(<<>>, sw.nfut - 1)]
    ELSE [sw EXCEPT !.nfut = @ - 1, !.nrun = Min(sw.workers, sw.nfut - 1),
                    !.queue = items,
                    !.got = @ \o items,
                    !.pc = AfterItem(items, sw.nfut - 1)]

FetchResult(j, t, raised, items) ==
    LET s == <<j, t>> IN
    /\ sweep[s].pc \in {"fetch", "unwind"}
    /\ sweep[s].nrun > 0
    /\ raised => items = <<>>
    /\ Cardinality(NewLinks(items, t)) <= MaxId - _next_id - Outstanding
    /\ sweep' = [sweep EXCEPT ![s] = Fetched(sweep[s], raised, items)]
    /\ api' = NoCall
    /\ UNCHANGED <<feeds, all_news, seen_links, last_fetched, lsh_index, minhashes,
                   _next_id, last_updated, job, rm, _lock, storeVars, probe, feedVars>>

\* The link check left out.
VerdictNoSeenCheck(link, seen, hit) ==
    IF link = "" THEN "nolink"
    ELSE IF hit THEN "dup"
    ELSE "admit"

\* The answer of the index ignored.
VerdictNoDupCheck(link, seen, hit) ==
    IF link = "" THEN "nolink"
    ELSE IF link \in seen THEN "seen"
    ELSE "admit"

\* The three `continue`s of the loop body (news_tracker.py:74-86); hit is the
\* answer of the index, asked only when the first two do not apply.
Verdict(link, seen, hit) ==
    IF link = "" THEN "nolink"
    ELSE IF link \in seen THEN "seen"
    ELSE IF hit THEN "dup"
    ELSE "admit"

\* The link added to the seen links before the index is asked, so that a near
\* duplicate leaves its link behind.
CheckItemMarksSeen(j, t, hit) ==
    LET s == <<j, t>>
        item == Head(sweep[s].queue)
        rest == Tail(sweep[s].queue)
        m == _build_minhash(ItemText(item))
        gone == item.link # "" /\ t \notin DOMAIN seen_links
        v == Verdict(item.link, IF gone THEN {} ELSE seen_links[t], hit)
    IN
    /\ sweep[s].pc = "item"
    /\ sweep[s].queue # <<>>
    /\ IF item.link = "" \/ gone \/ item.link \in seen_links[t]
       THEN hit = FALSE
       ELSE hit \in QueryOutcomes(lsh_index[t], m)
    /\ IF gone
       THEN sweep' = [sweep EXCEPT ![s] = Raised(@)]
       ELSE IF v = "admit"
       THEN sweep' = [sweep EXCEPT ![s].queue = rest,
                                   ![s].cur = <<item>>,
                                   ![s].pc = "insert"]
       ELSE sweep' = [sweep EXCEPT ![s].queue = rest,
                                   ![s].log = Append(@, v),
                                   ![s].pc = AfterItem(rest, sweep[s].nfut)]
    /\ seen_links' = IF ~gone /\ v = "dup"
                     THEN Put(seen_links, t, seen_links[t] \cup {item.link})
                     ELSE seen_links
    /\ api' = NoCall
    /\ UNCHANGED <<feeds, all_news, last_fetched, lsh_index, minhashes,
                   _next_id, last_updated, job, rm, _lock, storeVars, probe, feedVars>>

\* One item up to the index query (news_tracker.py:73-86);
\* self.seen_links[topic] is a KeyError once the topic's entry is deleted.
CheckItem(j, t, hit) ==
    LET s == <<j, t>>
        item == Head(sweep[s].queue)
        rest == Tail(sweep[s].queue)
        m == _build_minhash(ItemText(item))
        gone == item.link # "" /\ t \notin DOMAIN seen_links
        v == Verdict(item.link, IF gone THEN {} ELSE seen_links[t], hit)
    IN
    /\ sweep[s].pc = "item"
    /\ sweep[s].queue # <<>>
    /\ IF item.link = "" \/ gone \/ item.link \in seen_links[t]
       THEN hit = FALSE
       ELSE hit \in QueryOutcomes(lsh_index[t], m)
    /\ IF gone
       THEN sweep' = [sweep EXCEPT ![s] = Raised(@)]
       ELSE IF v = "admit"
       THEN sweep' = [sweep EXCEPT ![s].queue = rest,
                                   ![s].cur = <<item>>,
                                   ![s].pc = "insert"]
       ELSE sweep' = [sweep EXCEPT ![s].queue = rest,
                                   ![s].log = Append(@, v),
                                   ![s].pc = AfterItem(rest, sweep[s].nfut)]
    /\ api' = NoCall
    /\ UNCHANGED <<feeds, all_news, seen_links, last_fetched, lsh_index, minhashes,
                   _next_id, last_updated, job, rm, _lock, storeVars, probe, feedVars>>

WithId(item, id) ==
    [title |-> item.title, summary |-> item.summary, link |-> item.link,
     published |-> item.published, id |-> id]

\* The critical section (news_tracker.py:89-93).
InsertItem(j, t) ==
    LET s == <<j, t>>
        item == sweep[s].cur[1]
        m == _build_minhash(ItemText(item))
    IN
    /\ sweep[s].pc = "insert"
    /\ _lock = NoHolder
    /\ lsh_index' = [lsh_index EXCEPT ![t] = Put(@, _next_id, m)]
    /\ minhashes' = [minhashes EXCEPT ![t] = Put(@, _next_id, m)]
    /\ sweep' = [sweep EXCEPT ![s].cur = <<WithId(item, _next_id)>>,
                              ![s].pc = "append"]
    /\ _next_id' = _next_id + 1
    /\ api' = NoCall
    /\ UNCHANGED <<feeds, all_news, seen_links, last_fetched, last_updated, job,
                   rm, _lock, storeVars, probe, feedVars>>

\* The same critical section, statement by statement, for the runs in which
\* several sweeps reach it together.  news_tracker.py:89: "with self._lock"
\* blocks until the lock is free and takes it.
LockAcquireNoWait(j, t) ==
    LET s == <<j, t>> IN
    /\ sweep[s].pc = "insert"
    /\ _lock' = s
    /\ sweep' = [sweep EXCEPT ![s].pc = "locked"]
    /\ api' = NoCall
    /\ UNCHANGED <<feeds, all_news, seen_links, last_fetched, lsh_index, minhashes,
                   _next_id, last_updated, job, rm, storeVars, probe, feedVars>>

LockAcquire(j, t) ==
    LET s == <<j, t>> IN
    /\ sweep[s].pc = "insert"
    /\ _lock = NoHolder
    /\ _lock' = s
    /\ sweep' = [sweep EXCEPT ![s].pc = "locked"]
    /\ api' = NoCall
    /\ UNCHANGED <<feeds, all_news, seen_links, last_fetched, lsh_index, minhashes,
                   _next_id, last_updated, job, rm, storeVars, probe, feedVars>>

\* news_tracker.py:90-92: the two index writes and item["_id"], all three
\* with the value of _next_id read here.
LockedInsert(j, t) ==
    LET s == <<j, t>>
        item == sweep[s].cur[1]
        m == _build_minhash(ItemText(item))
    IN
    /\ sweep[s].pc = "locked"
    /\ lsh_index' = [lsh_index EXCEPT ![t] = Put(@, _next_id, m)]
    /\ minhashes' = [minhashes EXCEPT ![t] = Put(@, _next_id, m)]
    /\ sweep' = [sweep EXCEPT ![s].cur = <<WithId(item, _next_id)>>,
                              ![s].pc = "numbered"]
    /\ api' = NoCall
    /\ UNCHANGED <<feeds, all_news, seen_links, last_fetched, _next_id, last_updated,
                   job, rm, _lock, storeVars, probe, feedVars>>

\* A critical section that ends without giving the lock back.
LockReleaseKeepsLock(j, t) ==
    LET s == <<j, t>> IN
    /\ sweep[s].pc = "numbered"
    /\ _next_id' = _next_id + 1
    /\ sweep' = [sweep EXCEPT ![s].pc = "append"]
    /\ api' = NoCall
    /\ UNCHANGED <<feeds, all_news, seen_links, last_fetched, lsh_index, minhashes,
                   last_updated, job, rm, _lock, storeVars, probe, feedVars>>

\* news_tracker.py:93 and the end of the with block: the counter is one more
\* than the id this sweep gave, and the lock is free again.
LockRelease(j, t) ==
    LET s == <<j, t>> IN
    /\ sweep[s].pc = "numbered"
    /\ _next_id' = _next_id + 1
    /\ _lock' = NoHolder
    /\ sweep' = [sweep EXCEPT ![s].pc = "append"]
    /\ api' = NoCall
    /\ UNCHANGED <<feeds, all_news, seen_links, last_fetched, lsh_index, minhashes,
                   last_updated, job, rm, storeVars, probe, feedVars>>

\* news_tracker.py:95-97; each of the two subscripts is a KeyError once the
\* topic's entry is deleted.
AppendItem(j, t) ==
    LET s == <<j, t>>
        item == sweep[s].cur[1]
    IN
    /\ sweep[s].pc = "append"
    /\ IF t \notin DOMAIN seen_links
       THEN /\ sweep' = [sweep EXCEPT ![s] = Raised(@)]
            /\ UNCHANGED <<seen_links, all_news>>
       ELSE /\ seen_links' = [seen_links EXCEPT ![t] = @ \cup {item.link}]
            /\ IF t \notin DOMAIN all_news
               THEN /\ sweep' = [sweep EXCEPT ![s] = Raised(@)]
                    /\ UNCHANGED all_news
               ELSE /\ all_news' = [all_news EXCEPT ![t] = Append(@, item)]
                    /\ sweep' = [sweep EXCEPT
                                    ![s].cur = <<>>,
                                    ![s].fresh = Append(@, item),
                                    ![s].log = Append(@, "admitted"),
                                    ![s].pc = AfterItem(sweep[s].queue, sweep[s].nfut)]
    /\ api' = NoCall
    /\ UNCHANGED <<feeds, last_fetched, lsh_index, minhashes, _next_id, last_updated,
                   job, rm, _lock, storeVars, probe, feedVars>>

\* After the loop, the two sorts, and _prune_topic_memory up to its test
\* (news_tracker.py:99-102, 51-53); self.all_news[topic] is a KeyError once the
\* topic's entry is deleted.
SortNews(j, t) ==
    LET s == <<j, t>> IN
    /\ sweep[s].pc = "finish"
    /\ IF t \notin DOMAIN all_news
       THEN /\ sweep' = [sweep EXCEPT ![s] = Raised(@)]
            /\ UNCHANGED all_news
       ELSE /\ all_news' = [all_news EXCEPT ![t] = SortDesc(@)]
            /\ sweep' = [sweep EXCEPT
                            ![s].fresh = SortDesc(@),
                            ![s].lst = IF Len(all_news[t]) > _MAX_ITEMS_PER_TOPIC
                                       THEN SortDesc(all_news[t]) ELSE <<>>,
                            ![s].pc = IF Len(all_news[t]) > _MAX_ITEMS_PER_TOPIC
                                      THEN "prune_write" ELSE "record"]
    /\ api' = NoCall
    /\ UNCHANGED <<feeds, seen_links, last_fetched, lsh_index, minhashes, _next_id,
                   last_updated, job, rm, _lock, storeVars, probe, feedVars>>

\* _prune_topic_memory assigns the truncated list (news_tracker.py:54).
PruneWrite(j, t) ==
    LET s == <<j, t>> IN
    /\ sweep[s].pc = "prune_write"
    /\ all_news' = Put(all_news, t, _prune_topic_memory(sweep[s].lst))
    /\ sweep' = [sweep EXCEPT ![s].lst = <<>>, ![s].pc = "record"]
    /\ api' = NoCall
    /\ UNCHANGED <<feeds, seen_links, last_fetched, lsh_index, minhashes, _next_id,
                   last_updated, job, rm, _lock, storeVars, probe, feedVars>>

\* A sweep that records the head of the topic's whole list.
FinishSweepWholeList(j, t) ==
    LET s == <<j, t>> IN
    /\ sweep[s].pc = "record"
    /\ last_fetched' = Put(last_fetched, t, Take(allKnown(t), DefaultLimit))
    /\ sweep' = [sweep EXCEPT ![s].pc = "done"]
    /\ api' = NoCall
    /\ UNCHANGED <<feeds, all_news, seen_links, lsh_index, minhashes, _next_id,
                   last_updated, job, rm, _lock, storeVars, probe, feedVars>>

\* The batch is recorded and returned (news_tracker.py:105-106).
FinishSweep(j, t) ==
    LET s == <<j, t>> IN
    /\ sweep[s].pc = "record"
    /\ last_fetched' = Put(last_fetched, t, Take(sweep[s].fresh, DefaultLimit))
    /\ sweep' = [sweep EXCEPT ![s].pc = "done"]
    /\ api' = NoCall
    /\ UNCHANGED <<feeds, all_news, seen_links, lsh_index, minhashes, _next_id,
                   last_updated, job, rm, _lock, storeVars, probe, feedVars>>

\* An update_all that lets a sweep's exception out of its loop, past the
\* assignment of last_updated.
UpdateAllReraises(j) ==
    /\ job[j].pc = "running"
    /\ job[j].pending = {}
    /\ Running(j) = {}
    /\ last_updated' = IF \E t \in AllTopics : sweep[<<j, t>>].pc = "raised"
                       THEN last_updated ELSE now
    /\ job' = [job EXCEPT ![j] = IdleJob]
    /\ sweep' = [s \in Sweeps |-> IF s[1] = j THEN IdleSweep ELSE sweep[s]]
    /\ api' = [op |-> "update_all", topic |-> "",
               result |-> IF \E t \in AllTopics : sweep[<<j, t>>].pc = "raised"
                          THEN "error printed" ELSE "success"]
    /\ UNCHANGED <<feeds, all_news, seen_links, last_fetched, lsh_index, minhashes,
                   _next_id, rm, _lock, storeVars, probe, feedVars>>

\* update_all after the pool has drained (news_tracker.py:117-124): a sweep's
\* exception was printed when its future was consumed.
UpdateAllFinish(j) ==
    /\ job[j].pc = "running"
    /\ job[j].pending = {}
    /\ Running(j) = {}
    /\ last_updated' = now
    /\ job' = [job EXCEPT ![j] = IdleJob]
    /\ sweep' = [s \in Sweeps |-> IF s[1] = j THEN IdleSweep ELSE sweep[s]]
    /\ api' = [op |-> "update_all", topic |-> "",
               result |-> IF \E t \in AllTopics : sweep[<<j, t>>].pc = "raised"
                          THEN "error printed" ELSE "success"]
    /\ UNCHANGED <<feeds, all_news, seen_links, last_fetched, lsh_index, minhashes,
                   _next_id, rm, _lock, storeVars, probe, feedVars>>

-----------------------------------------------------------------------------
(* The store (news/storage/repository.py).  The corpus is the dict load_db  *)
(* builds from the file: normalized title -> NewsItem.  No two articles of  *)
(* StoreArticles that can be stored together carry the same published       *)
(* value, so the order of the dict never decides the order of a sorted      *)
(* result.                                                                  *)

\* sentiment=None, probabilities=None
NoSentiment == "null"

\* The characters of a link: the scheme's punctuation is what normalize drops.
LinkChars(link) ==
    CASE link = "u1" -> <<"u", "/", "1">>
      [] link = "u2" -> <<"u", "/", "2">>
      [] link = "u3" -> <<"u", "/", "3">>
      [] link = "u4" -> <<"u", "/", "4">>
      [] link = "u5" -> <<"u", "/", "5">>
      [] link = "u9" -> <<"u", "/", "9">>
      [] OTHER -> <<>>

\* The instants at which the store is used.
ClockValues == {30, 61, 75, 391}

\* An entry whose title is empty.
ArtNoTitle == Raw(<<>>, <<>>, "u5", 30)

\* The batches handed to add_news_batch.
Batches ==
    { <<ArtAb>>,
      <<ArtaB>>,
      <<ArtC>>,
      <<ArtAb, ArtaB>>,
      <<ArtC, ArtaB>>,
      <<ArtNoLink, ArtNoTitle, ArtC>> }

Links == {"u1", "u2", "u3", "u9"}

\* The batches that reach the store while sentiments are assigned: two of
\* their articles carry one link under two titles.
SentimentBatches ==
    { <<ArtAb>>,
      <<ArtB>>,
      <<ArtC, ArtAb>> }

SentimentLinks == {"u1", "u3"}

\* The 30-minute boundary taken as exclusive.
ClassifyStrictBoundary(publ, t) ==
    IF publ = NoPub THEN "old"
    ELSE IF publ = BadPub THEN "old"
    ELSE IF t - publ < FreshMinutes THEN "fresh"
    ELSE IF t - publ <= NewMinutes THEN "new"
    ELSE "old"

\* The labels of the two younger tiers exchanged.
ClassifyLabelsSwapped(publ, t) ==
    IF publ = NoPub THEN "old"
    ELSE IF publ = BadPub THEN "old"
    ELSE IF t - publ <= FreshMinutes THEN "new"
    ELSE IF t - publ <= NewMinutes THEN "fresh"
    ELSE "old"

\* repository.classify_news_status
classify_news_status(publ, t) ==
    IF publ = NoPub THEN "old"
    ELSE IF publ = BadPub THEN "old"
    ELSE IF t - publ <= FreshMinutes THEN "fresh"
    ELSE IF t - publ <= NewMinutes THEN "new"
    ELSE "old"

\* The record built with the cleaned-up title.
NewsItemNormalizedTitle(item, topic, status, fetched_at) ==
    [link |-> item.link, title |-> normalize(item.title), published |-> item.published,
     summary |-> item.summary, topic |-> topic, status |-> status,
     fetched_at |-> fetched_at, sentiment |-> NoSentiment,
     probabilities |-> NoSentiment]

\* NewsItem(**item, topic=, status=, fetched_at=, sentiment=None,
\* probabilities=None)
NewsItem(item, topic, status, fetched_at) ==
    [link |-> item.link, title |-> item.title, published |-> item.published,
     summary |-> item.summary, topic |-> topic, status |-> status,
     fetched_at |-> fetched_at, sentiment |-> NoSentiment,
     probabilities |-> NoSentiment]

\* A loop that assigns db[norm_title] whether or not the title was seen.
RECURSIVE AddLoopOverwrite(_, _, _, _, _)
AddLoopOverwrite(items, d, seen_titles, topic, t) ==
    IF items = <<>> THEN d
    ELSE LET item == Head(items)
             norm_title == normalize(Strip(item.title))
             status == classify_news_status(item.published, t)
         IN  IF item.title = <<>> \/ item.link = ""
             THEN AddLoopOverwrite(Tail(items), d, seen_titles, topic, t)
             ELSE AddLoopOverwrite(Tail(items),
                                   Put(d, norm_title, NewsItem(item, topic, status, t)),
                                   seen_titles \cup {norm_title}, topic, t)

\* A loop that skips an item only when its title is missing.
RECURSIVE AddLoopNoLinkCheck(_, _, _, _, _)
AddLoopNoLinkCheck(items, d, seen_titles, topic, t) ==
    IF items = <<>> THEN d
    ELSE LET item == Head(items)
             norm_title == normalize(Strip(item.title))
             status == classify_news_status(item.published, t)
         IN  IF item.title = <<>>
             THEN AddLoopNoLinkCheck(Tail(items), d, seen_titles, topic, t)
             ELSE IF norm_title \notin seen_titles
                  THEN AddLoopNoLinkCheck(Tail(items),
                               Put(d, norm_title, NewsItem(item, topic, status, t)),
                               seen_titles \cup {norm_title}, topic, t)
                  ELSE AddLoopNoLinkCheck(Tail(items), d, seen_titles, topic, t)

\* The loop of add_news_batch (repository.py:67-92) over the remaining items.
RECURSIVE AddLoop(_, _, _, _, _)
AddLoop(items, d, seen_titles, topic, t) ==
    IF items = <<>> THEN d
    ELSE LET item == Head(items)
             norm_title == normalize(Strip(item.title))
             status == classify_news_status(item.published, t)
         IN  IF item.title = <<>> \/ item.link = ""
             THEN AddLoop(Tail(items), d, seen_titles, topic, t)
             ELSE IF norm_title \notin seen_titles
                  THEN AddLoop(Tail(items),
                               Put(d, norm_title, NewsItem(item, topic, status, t)),
                               seen_titles \cup {norm_title}, topic, t)
                  ELSE AddLoop(Tail(items), d, seen_titles, topic, t)

\* The last call on the store: which one, with what arguments, and what it
\* returned (raised: whether an exception went out of it instead).
Call(op, topic, status_filter, news_list, link, val) ==
    [op |-> op, topic |-> topic, filter |-> status_filter, batch |-> news_list,
     link |-> link, val |-> val, raised |-> FALSE]

\* The same for a call that an exception went out of.
Propagated(op) == [Call(op, "", "", <<>>, "", <<>>) EXCEPT !.raised = TRUE]

NoRet == Call("none", "", "", <<>>, "", <<>>)

\* A dict keeps its keys in the order of their first assignment: the keys
\* the loop added, in the order of the items that brought them.
RECURSIVE KeysAdded(_, _, _)
KeysAdded(items, added, keys) ==
    IF items = <<>> THEN keys
    ELSE LET norm_title == normalize(Strip(Head(items).title))
         IN  IF norm_title \in added /\ norm_title \notin Range(keys)
             THEN KeysAdded(Tail(items), added, Append(keys, norm_title))
             ELSE KeysAdded(Tail(items), added, keys)

\* repository.add_news_batch
add_news_batch(news_list, topic) ==
    /\ db' = AddLoop(news_list, db, DOMAIN db, topic, now)
    /\ db_keys' = KeysAdded(news_list, DOMAIN db' \ DOMAIN db, db_keys)
    /\ ret' = Call("add", topic, "", news_list, "", <<>>)
    /\ UNCHANGED <<cls, now, lockVars, trackerVars, probe, feedVars>>

\* The loop of update_and_save_all over tracker.feeds (api/main.py:121-124):
\* each topic's last batch, when it is not empty, goes to add_news_batch.  The
\* result is the corpus, its keys, and the items handed over so far.
RECURSIVE HandOff(_, _, _)
HandOff(order, acc, t) ==
    IF order = <<>> THEN acc
    ELSE LET topic == Head(order)
             fresh == get_last_news(topic)
             d == AddLoop(fresh, acc.db, DOMAIN acc.db, topic, t)
         IN  IF topic \notin DOMAIN feeds \/ fresh = <<>>
             THEN HandOff(Tail(order), acc, t)
             ELSE HandOff(Tail(order),
                          [db |-> d,
                           keys |-> KeysAdded(fresh, DOMAIN d \ DOMAIN acc.db, acc.keys),
                           handed |-> acc.handed \o fresh],
                          t)

\* The topics in the order of their registration (api/main.py:89-90).
TopicOrder == <<"t1", "t2">>

\* update_and_save_all from the return of update_all on (api/main.py:120-127):
\* the hand-off loop, each add_news_batch under the store's lock, and
\* tracker.last_updated.
update_and_save_all(j) ==
    LET saved == HandOff(TopicOrder, [db |-> db, keys |-> db_keys, handed |-> <<>>], now)
    IN
    /\ job[j].pc = "running"
    /\ job[j].pending = {}
    /\ Running(j) = {}
    /\ last_updated' = now
    /\ job' = [job EXCEPT ![j] = IdleJob]
    /\ sweep' = [s \in Sweeps |-> IF s[1] = j THEN IdleSweep ELSE sweep[s]]
    /\ api' = [op |-> "update_and_save_all", topic |-> "", result |-> "success"]
    /\ db' = saved.db
    /\ db_keys' = saved.keys
    /\ ret' = Call("add", "", "", saved.handed, "", <<>>)
    /\ UNCHANGED <<feeds, all_news, seen_links, last_fetched, lsh_index, minhashes,
                   _next_id, rm, _lock, cls, now, lockVars, probe, feedVars>>

\* db.values(): the records in the order of the keys.
Values(d, keys) == [i \in 1..Len(keys) |-> d[keys[i]]]

\* A list comprehension with a condition, over the positions kept.
RECURSIVE Filter(_, _)
Filter(s, keep) ==
    IF s = <<>> THEN <<>>
    ELSE IF Head(s) \in keep THEN <<Head(s)>> \o Filter(Tail(s), keep)
         ELSE Filter(Tail(s), keep)

\* The write-back left out.
ReclassifiedNotSaved(d, topic, t) == d

\* The corpus after the status write-back of get_news_by_topic
\* (repository.py:98-111).
Reclassified(d, topic, t) ==
    [k \in DOMAIN d |->
        IF d[k].topic = topic
        THEN [d[k] EXCEPT !.status = classify_news_status(d[k].published, t)]
        ELSE d[k]]

\* What get_news_by_topic returns (repository.py:112-114).
QueryResult(d, keys, topic, status_filter, t) ==
    LET r == Reclassified(d, topic, t)
        all_items == {r[k] : k \in {x \in DOMAIN r : r[x].topic = topic}}
        kept == IF status_filter # ""
                THEN {n \in all_items : n.status = status_filter}
                ELSE all_items
    IN  SortDesc(Filter(Values(r, keys), kept))

\* repository.get_news_by_topic
get_news_by_topic(topic, status_filter) ==
    /\ db' = Reclassified(db, topic, now)
    /\ ret' = Call("query", topic, status_filter, <<>>, "",
                   QueryResult(db, db_keys, topic, status_filter, now))
    /\ UNCHANGED <<db_keys, cls, now, lockVars, trackerVars, probe, feedVars>>

\* A mark_read that writes a status into the records it finds.
MarkReadSetsStatus(link) ==
    /\ ret' = Call("read", "", "", <<>>, link, <<\E k \in DOMAIN db : db[k].link = link>>)
    /\ db' = [k \in DOMAIN db |->
                 IF db[k].link = link THEN [db[k] EXCEPT !.status = "read"] ELSE db[k]]
    /\ UNCHANGED <<db_keys, cls, now, lockVars, trackerVars, probe, feedVars>>

\* repository.mark_read
mark_read(link) ==
    /\ ret' = Call("read", "", "", <<>>, link, <<\E k \in DOMAIN db : db[k].link = link>>)
    /\ UNCHANGED <<db, db_keys, cls, now, lockVars, trackerVars, probe, feedVars>>

\* The positions of the records with this link, in the order of the dict.
WithLink(d, keys, link) == {i \in 1..Len(keys) : d[keys[i]].link = link}

FirstOf(S) == CHOOSE i \in S : \A h \in S : i <= h

\* classify_pending_news when nothing is under way.
IdleCls == [pc |-> "idle", pending |-> <<>>, todo |-> <<>>, gone |-> {}]

\* repository.delete_news: the first record with the link goes, and the call
\* returns.  (cls.gone notes the keys deleted while a classification run is
\* between its read and its last update.)
delete_news(link) ==
    LET hits == WithLink(db, db_keys, link) IN
    /\ IF hits # {}
       THEN LET key == db_keys[FirstOf(hits)] IN
            /\ db' = Del(db, key)
            /\ db_keys' = Filter(db_keys, Range(db_keys) \ {key})
            /\ cls' = IF cls.pc = "update" THEN [cls EXCEPT !.gone = @ \cup {key}] ELSE cls
            /\ ret' = Call("delete", "", "", <<>>, link, <<TRUE>>)
       ELSE /\ ret' = Call("delete", "", "", <<>>, link, <<FALSE>>)
            /\ UNCHANGED <<db, db_keys, cls>>
    /\ UNCHANGED <<now, lockVars, trackerVars, probe, feedVars>>

\* repository.get_all_news: the stored records as they are.
get_all_news == Values(db, db_keys)

\* The records Notifier.collect_fresh_news selects, most recent first.
FreshItems(window) ==
    LET cutoff == now - window
        items == {n \in Range(get_all_news) :
                    /\ n.status = "fresh"
                    /\ n.published \notin {NoPub, BadPub}
                    /\ n.published >= cutoff}
    IN  SortDesc(Filter(get_all_news, items))

\* Notifier.collect_fresh_news over get_all_news (news_notifier.py:127-150).
collect_fresh_news(window) ==
    /\ ret' = Call("collect", "", "", <<>>, "", FreshItems(window))
    /\ UNCHANGED <<db, db_keys, cls, now, lockVars, trackerVars, probe, feedVars>>

\* send_fresh_email_job with a recipient configured (api/main.py:153-175):
\* the send is inside try/except, and its failure is printed.  `sends` is
\* whether send_via_outlook returns rather than raises.
send_fresh_email_job(window, sends) ==
    LET items == FreshItems(window) IN
    /\ ret' = Call("send_fresh_email_job", "", "", <<>>, "",
                   IF items = <<>> THEN <<"nothing to send">>
                   ELSE IF sends THEN <<"sent">>
                   ELSE <<"failure printed">>)
    /\ UNCHANGED <<db, db_keys, cls, now, lockVars, trackerVars, probe, feedVars>>

\* POST /notify/outlook with a recipient configured (api/main.py:260-265,
\* news_notifier.py:328-350): neither Notifier.notify_outlook nor the endpoint
\* has a try around send_via_outlook.
notify_outlook(window, sends) ==
    LET items == FreshItems(window) IN
    /\ ret' = IF items = <<>> THEN Call("notify_outlook", "", "", <<>>, "", <<"no_items">>)
              ELSE IF sends THEN Call("notify_outlook", "", "", <<>>, "", <<"sent">>)
              ELSE Propagated("notify_outlook")
    /\ UNCHANGED <<db, db_keys, cls, now, lockVars, trackerVars, probe, feedVars>>

\* The labels of NewsClassifier.
Labels == {"Muito Negativo", "Negativo", "Neutro", "Positivo", "Muito Positivo"}

\* NewsClassifier.classify_texts: one result per text, in order.  The model's
\* verdict is a function of the text; the distribution is written as the text
\* it was computed for.
classify_texts(texts) ==
    [i \in 1..Len(texts) |->
        [sentiment |-> IF "c" \in Range(LowerSeq(texts[i])) THEN "Positivo" ELSE "Negativo",
         probabilities |-> texts[i]]]

\* The key of the record update_news_sentiment writes to (repository.py:
\* 142-146): the record keyed by the normalized argument, else the first
\* record whose link is the argument; none when neither exists.
SentimentTarget(d, keys, link_or_title) ==
    LET norm == normalize(link_or_title)
        hits == {i \in 1..Len(keys) : LinkChars(d[keys[i]].link) = link_or_title}
    IN  IF norm \in DOMAIN d THEN {norm}
        ELSE IF hits # {} THEN {keys[FirstOf(hits)]}
        ELSE {}

\* repository.update_news_sentiment, as the corpus it saves.
update_news_sentiment(d, keys, link_or_title, sentiment, probabilities) ==
    [k \in DOMAIN d |->
        IF k \in SentimentTarget(d, keys, link_or_title)
        THEN [d[k] EXCEPT !.sentiment = sentiment, !.probabilities = probabilities]
        ELSE d[k]]

\* item.link or item.title
PendingKey(n) == IF n.link # "" THEN LinkChars(n.link) ELSE n.title

\* classify_pending_news up to the classifier's answer (api/main.py:135-146).
ClassifyStart ==
    LET db_items == get_all_news
        nulls == {n \in Range(db_items) : n.sentiment = NoSentiment}
        found == Filter(db_items, nulls)
        pending == [i \in 1..Len(found) |->
                       [key |-> PendingKey(found[i]), text |-> found[i].title]]
        results == classify_texts([i \in 1..Len(pending) |-> pending[i].text])
    IN
    /\ cls.pc = "idle"
    /\ IF pending = <<>>
       THEN UNCHANGED cls
       ELSE cls' = [pc |-> "update", pending |-> pending, gone |-> {},
                    todo |-> [i \in 1..Len(pending) |->
                                 [key |-> pending[i].key, res |-> results[i]]]]
    /\ ret' = Call("classify", "", "", <<>>, "", <<Len(pending)>>)
    /\ UNCHANGED <<db, db_keys, now, lockVars, trackerVars, probe, feedVars>>

\* classify_pending_news when classifier.classify_texts raises
\* (api/main.py:133-146): the call at line 146 is in no try block, so the
\* exception leaves the function before any update.
ClassifyFails ==
    LET nulls == {n \in Range(get_all_news) : n.sentiment = NoSentiment} IN
    /\ cls.pc = "idle"
    /\ nulls # {}
    /\ ret' = Propagated("classify")
    /\ UNCHANGED <<db, db_keys, cls, now, lockVars, trackerVars, probe, feedVars>>

\* One turn of the loop over zip(keys, results) (api/main.py:147-148).
ClassifyUpdate ==
    LET head == Head(cls.todo) IN
    /\ cls.pc = "update"
    /\ db' = update_news_sentiment(db, db_keys, head.key, head.res.sentiment,
                                   head.res.probabilities)
    /\ cls' = IF Tail(cls.todo) = <<>> THEN IdleCls
              ELSE [cls EXCEPT !.todo = Tail(@)]
    /\ ret' = Call("sentiment", "", "", <<>>, "",
                   <<SentimentTarget(db, db_keys, head.key) # {}>>)
    /\ UNCHANGED <<db_keys, now, lockVars, trackerVars, probe, feedVars>>

\* Time passes.
Tick(t) ==
    /\ t \in ClockValues
    /\ t > now
    /\ now' = t
    /\ ret' = NoRet
    /\ UNCHANGED <<db, db_keys, cls, lockVars, trackerVars, probe, feedVars>>

\* The threads that call the store together.
Callers == {"c1", "c2"}

\* A caller outside every store operation.
IdleCall == [pc |-> "idle", op |-> "none", topic |-> "", batch |-> <<>>, link |-> "",
             db |-> EmptyMap, keys |-> <<>>]

\* The corpus file is absent or the one save_db wrote.
NoFile == [kind |-> "saved", records |-> <<>>]

StoreInit ==
    /\ db = EmptyMap
    /\ db_keys = <<>>
    /\ cls = IdleCls
    /\ now = 30
    /\ ret = NoRet
    /\ db_lock = NoHolder
    /\ call = [c \in Callers |-> IdleCall]
    /\ raw = NoFile

-----------------------------------------------------------------------------
(* The store's operations with their lock: `with db_lock:` is entered, the  *)
(* file is loaded, and the operation works on what it loaded until it saves *)
(* and leaves the block (repository.py:61-152).                             *)

\* The operations the callers ask for.
StoreOps ==
    {[op |-> "add", topic |-> "t1", batch |-> b, link |-> ""] : b \in {<<ArtAb>>, <<ArtC>>}}
    \cup {[op |-> o, topic |-> "", batch |-> <<>>, link |-> "u1"] :
              o \in {"delete", "read", "sentiment"}}
    \cup {[op |-> o, topic |-> "t1", batch |-> <<>>, link |-> ""] : o \in {"query", "all"}}

\* Whether the operation c reaches its save_db, on the corpus (d, keys) it
\* loaded: add_news_batch always does, get_news_by_topic when a status
\* changed, mark_read, delete_news and update_news_sentiment when they find
\* their record, get_all_news never.
Writes(c, d, keys, t) ==
    CASE c.op = "add" -> TRUE
      [] c.op = "query" -> Reclassified(d, c.topic, t) # d
      [] c.op \in {"read", "delete"} -> WithLink(d, keys, c.link) # {}
      [] c.op = "sentiment" -> SentimentTarget(d, keys, LinkChars(c.link)) # {}
      [] OTHER -> FALSE

\* The corpus the operation c makes of the corpus (d, keys).
Saved(c, d, keys, t) ==
    CASE c.op = "add" ->
            LET e == AddLoop(c.batch, d, DOMAIN d, c.topic, t)
            IN  [db |-> e, keys |-> KeysAdded(c.batch, DOMAIN e \ DOMAIN d, keys)]
      [] c.op = "query" -> [db |-> Reclassified(d, c.topic, t), keys |-> keys]
      [] c.op = "delete" /\ WithLink(d, keys, c.link) # {} ->
            LET key == keys[FirstOf(WithLink(d, keys, c.link))]
            IN  [db |-> Del(d, key), keys |-> Filter(keys, Range(keys) \ {key})]
      [] c.op = "sentiment" ->
            [db |-> update_news_sentiment(d, keys, LinkChars(c.link), "Positivo",
                                          LinkChars(c.link)),
             keys |-> keys]
      [] OTHER -> [db |-> d, keys |-> keys]

\* An entry that does not wait for the lock.
EnterNoWait(c, o) ==
    /\ call[c].pc = "idle"
    /\ db_lock' = <<c>>
    /\ call' = [call EXCEPT ![c] = [pc |-> "held", op |-> o.op, topic |-> o.topic,
                                    batch |-> o.batch, link |-> o.link,
                                    db |-> db, keys |-> db_keys]]
    /\ UNCHANGED <<db, db_keys, cls, now, ret, raw, trackerVars, probe, feedVars>>

\* `with db_lock:` and `db = load_db()`: the caller waits for the lock, takes
\* it and reads the file.
Enter(c, o) ==
    /\ call[c].pc = "idle"
    /\ db_lock = NoHolder
    /\ db_lock' = <<c>>
    /\ call' = [call EXCEPT ![c] = [pc |-> "held", op |-> o.op, topic |-> o.topic,
                                    batch |-> o.batch, link |-> o.link,
                                    db |-> db, keys |-> db_keys]]
    /\ UNCHANGED <<db, db_keys, cls, now, ret, raw, trackerVars, probe, feedVars>>

\* The rest of the block: the operation on the loaded corpus, save_db when
\* the operation reaches it, and the release of the lock.
Leave(c) ==
    LET w == Saved(call[c], call[c].db, call[c].keys, now) IN
    /\ call[c].pc = "held"
    /\ IF Writes(call[c], call[c].db, call[c].keys, now)
       THEN db' = w.db /\ db_keys' = w.keys
       ELSE UNCHANGED <<db, db_keys>>
    /\ db_lock' = NoHolder
    /\ call' = [call EXCEPT ![c] = IdleCall]
    /\ ret' = Call(call[c].op, call[c].topic, "", call[c].batch, call[c].link, <<>>)
    /\ UNCHANGED <<cls, now, raw, trackerVars, probe, feedVars>>

-----------------------------------------------------------------------------
(* load_db on a file that save_db did not write (repository.py:27-36).  A   *)
(* file is garbage (no JSON at all, as an empty or truncated file), a JSON  *)
(* value that is no array (a non-empty object, or null), or an array of     *)
(* objects; an object is written as the record it would be, the keys it     *)
(* has, and those of its keys whose value is null.                          *)

\* The fields of NewsItem (repository.py:11-22) and those without a default.
ItemKeys == {"link", "title", "source", "published", "region", "summary", "topic",
             "status", "fetched_at", "sentiment", "probabilities"}

RequiredKeys == {"link", "title", "source", "topic"}

Rec(art, has, null) ==
    [item |-> NewsItem(art, "t1", "fresh", 30), has |-> has, null |-> null]

FileRecords ==
    { Rec(ArtAb, ItemKeys, {"sentiment", "probabilities"}),
      Rec(ArtC, ItemKeys, {"sentiment", "probabilities"}),
      Rec(ArtaB, ItemKeys \ {"link"}, {}),
      Rec(ArtAbc, ItemKeys \ {"title"}, {}),
      Rec(ArtB, ItemKeys, {"title"}) }

Files ==
    {[kind |-> k, records |-> <<>>] : k \in {"garbage", "object", "null"}}
    \cup {[kind |-> "list", records |-> <<r>>] : r \in FileRecords}
    \cup {[kind |-> "list", records |-> <<r, q>>] : r, q \in FileRecords}

\* What load_db gives: the dict and its keys, or the exception that leaves it.
Loaded(d, keys) == [exc |-> "none", db |-> d, keys |-> keys]

Raises(e) == [exc |-> e, db |-> EmptyMap, keys |-> <<>>]

\* The dict comprehension of load_db (repository.py:33), record by record:
\* item["title"] is a KeyError when the key is missing; normalize iterates
\* its argument, a TypeError when the title is null; NewsItem(**item) is a
\* ValidationError, which is a ValueError and is caught by line 34, when a
\* field without a default is missing or null.
RECURSIVE LoadRecords(_, _, _)
LoadRecords(records, d, keys) ==
    IF records = <<>> THEN Loaded(d, keys)
    ELSE LET r == Head(records)
             k == normalize(r.item.title)
         IN  IF "title" \notin r.has THEN Raises("KeyError")
             ELSE IF "title" \in r.null THEN Raises("TypeError")
             ELSE IF ~(RequiredKeys \subseteq r.has) \/ RequiredKeys \cap r.null # {}
             THEN Loaded(EmptyMap, <<>>)
             ELSE LoadRecords(Tail(records), Put(d, k, r.item),
                              IF k \in DOMAIN d THEN keys ELSE Append(keys, k))

\* repository.load_db: json.load raises JSONDecodeError on garbage, which is
\* caught; iterating a value that is no array, or subscripting its elements
\* with "title", is a TypeError, which is not.
load_db(f, d, keys) ==
    CASE f.kind = "saved" -> Loaded(d, keys)
      [] f.kind = "garbage" -> Loaded(EmptyMap, <<>>)
      [] f.kind = "list" -> LoadRecords(f.records, EmptyMap, <<>>)
      [] OTHER -> Raises("TypeError")

\* repository.get_all_news on whatever the file holds.
ReadFile ==
    LET l == load_db(raw, db, db_keys) IN
    /\ ret' = IF l.exc # "none" THEN Propagated("all")
              ELSE Call("all", "", "", <<>>, "", Values(l.db, l.keys))
    /\ UNCHANGED <<db, db_keys, cls, now, lockVars, trackerVars, probe, feedVars>>

\* repository.add_news_batch on whatever the file holds: when load_db
\* returns, the file is from then on the one save_db writes.
AddToFile(news_list, topic) ==
    LET l == load_db(raw, db, db_keys)
        d == AddLoop(news_list, l.db, DOMAIN l.db, topic, now)
    IN
    /\ IF l.exc # "none"
       THEN /\ ret' = Propagated("add")
            /\ UNCHANGED <<db, db_keys, raw>>
       ELSE /\ db' = d
            /\ db_keys' = KeysAdded(news_list, DOMAIN d \ DOMAIN l.db, l.keys)
            /\ raw' = NoFile
            /\ ret' = Call("add", topic, "", news_list, "", <<>>)
    /\ UNCHANGED <<cls, now, db_lock, call, trackerVars, probe, feedVars>>

-----------------------------------------------------------------------------
(* The classifier on its own: one (published, now) pair at a time.          *)

\* The last minute the classifier is probed at.
MaxMinute == 400

ProbePublished == {NoPub, BadPub, 0, 20, 390}

NoProbe == [published |-> NoPub, at |-> 0, status |-> "unset"]

\* status = classify_news_status(published, at)
Classify ==
    /\ probe.status = "unset"
    /\ probe' = [probe EXCEPT !.status = classify_news_status(probe.published, probe.at)]
    /\ UNCHANGED <<trackerVars, storeVars, feedVars>>

-----------------------------------------------------------------------------
(* Properties of the tracker.                                               *)

InFlight(t) == \E j \in JobIds : sweep[<<j, t>>].pc \notin {"idle", "done", "raised"}

Count(seq, x) == Cardinality({i \in 1..Len(seq) : seq[i] = x})

\* C1: for every registered topic, whenever no sweep of the topic is under
\* way (so after any number of completed sweeps), its list of known articles
\* is no longer than the memory cap.
C1_MemoryCap ==
    \A t \in DOMAIN feeds :
        ~InFlight(t) => Len(all_news[t]) <= _MAX_ITEMS_PER_TOPIC

\* A completed sweep admitted more than the cap holds, and the list is at the cap.
C1_Witness ==
    \E t \in DOMAIN feeds :
        /\ sweep[<<"sched", t>>].pc = "done"
        /\ Len(sweep[<<"sched", t>>].fresh) > _MAX_ITEMS_PER_TOPIC
        /\ Len(all_news[t]) = _MAX_ITEMS_PER_TOPIC

\* C2: within one topic no two items of the article list carry the same link:
\* an article whose link was admitted before, in this sweep or an earlier
\* one, is suppressed.
C2_ExactDedup ==
    \A t \in DOMAIN all_news :
        \A a, b \in 1..Len(all_news[t]) :
            a # b => all_news[t][a].link # all_news[t][b].link

\* One topic's sweep has suppressed the second occurrence of a link it admitted
\* itself, while another topic's sweep began by suppressing a link admitted by
\* an earlier sweep; both topics hold that link once.
C2_Witness ==
    \E t, u \in DOMAIN all_news :
        /\ sweep[<<"sched", t>>].log = <<"admitted", "seen">>
        /\ sweep[<<"sched", u>>].base > 0
        /\ sweep[<<"sched", u>>].log # <<>>
        /\ sweep[<<"sched", u>>].log[1] = "seen"
        /\ Len(all_news[t]) >= 1 /\ Len(all_news[u]) >= 1

Signature(item) == _build_minhash(ItemText(item))

\* C3: an article with an unseen link for which the index answers "match" is
\* skipped.  So no two items of a topic's list have sketches the index always
\* matches (equal ones), every signature of a listed item is in the index,
\* and a first sweep over three raw items with distinct links of which the
\* index matched one leaves exactly two items in the list.
C3_NearDupDedup ==
    \A t \in DOMAIN all_news :
        /\ \A a, b \in 1..Len(all_news[t]) :
               a # b => Signature(all_news[t][a]) # Signature(all_news[t][b])
        /\ \A a \in 1..Len(all_news[t]) :
               /\ all_news[t][a].id \in DOMAIN lsh_index[t]
               /\ lsh_index[t][all_news[t][a].id] = Signature(all_news[t][a])
        /\ \A j \in JobIds :
               LET sw == sweep[<<j, t>>] IN
               (/\ sw.pc = "done"
                /\ sw.base = 0
                /\ Len(sw.log) = 3
                /\ Count(sw.log, "dup") = 1
                /\ Count(sw.log, "admitted") = 2)
               => Len(all_news[t]) = 2

\* The first sweep of a topic is done: of three raw items the second was
\* matched by the index and two are listed.
C3_Witness ==
    \E t \in DOMAIN all_news :
        /\ sweep[<<"sched", t>>].pc = "done"
        /\ sweep[<<"sched", t>>].base = 0
        /\ sweep[<<"sched", t>>].log = <<"admitted", "dup", "admitted">>
        /\ Len(all_news[t]) = 2

-----------------------------------------------------------------------------
(* Properties of the classifier and the store.                              *)

\* fresh < new < old
Rank(status) == CASE status = "fresh" -> 0 [] status = "new" -> 1 [] OTHER -> 2

\* C4: the tier is decided by (published, now) alone: no or an unparseable
\* timestamp gives old; an age of at most 30 minutes gives fresh, 30 minutes
\* included; an age over 30 minutes and at most 6 hours gives new, 6 hours
\* included; anything older gives old.
C4_Classifier ==
    probe.status # "unset" =>
        LET age == probe.at - probe.published IN
        /\ probe.published \in {NoPub, BadPub} => probe.status = "old"
        /\ (probe.published >= 0 /\ age <= 30) => probe.status = "fresh"
        /\ (probe.published >= 0 /\ 30 < age /\ age <= 360) => probe.status = "new"
        /\ (probe.published >= 0 /\ age > 360) => probe.status = "old"

\* An article exactly 30 minutes old has been classified fresh.
C4_Witness ==
    /\ probe.published >= 0
    /\ probe.at - probe.published = 30
    /\ probe.status = "fresh"

\* C5: for a fixed published timestamp the tier never gets fresher as time
\* passes: the status stored for a record never moves back from old to new
\* or fresh, nor from new to fresh; the classifier at any two instants
\* t1 <= t2 ranks t2 no fresher than t1; and a record read at its published
\* instant t, at t+31min and at t+6h1min comes back fresh, new and old.
C5_Monotonic ==
    /\ [][\A k \in DOMAIN db \cap DOMAIN db' :
              db'[k].published = db[k].published
                  => Rank(db'[k].status) >= Rank(db[k].status)]_vars
    /\ [](\A k \in DOMAIN db : \A t1, t2 \in ClockValues :
              t1 <= t2 => Rank(classify_news_status(db[k].published, t1))
                          <= Rank(classify_news_status(db[k].published, t2)))
    /\ [](ret.op = "query" =>
              \A i \in 1..Len(ret.val) :
                  LET n == ret.val[i] IN
                  n.published >= 0 =>
                      /\ now = n.published => n.status = "fresh"
                      /\ now = n.published + 31 => n.status = "new"
                      /\ now = n.published + 361 => n.status = "old")

\* A record stored at its published instant (so stored fresh) is read 6h01
\* later and comes back old.
C5_Witness ==
    /\ ret.op = "query"
    /\ \E i \in 1..Len(ret.val) :
           /\ ret.val[i].published >= 0
           /\ ret.val[i].fetched_at = ret.val[i].published
           /\ now = ret.val[i].published + 361
           /\ ret.val[i].status = "old"

Matches(n, topic, status_filter) ==
    n.topic = topic /\ (status_filter = "" \/ n.status = status_filter)

\* C6: a query by topic leaves every stored record of the topic with the
\* status the classifier gives at the read instant, and returns exactly the
\* topic's records with the filtered status (all of them without a filter),
\* each once, by published descending; so a record published 45 minutes
\* before the read is returned under "new" and under no filter only; and the
\* fresh, new and old results of one instant share no record.
C6_QueryByTopic ==
    /\ ret.op = "query" =>
           /\ \A k \in DOMAIN db :
                  db[k].topic = ret.topic
                      => db[k].status = classify_news_status(db[k].published, now)
           /\ Range(ret.val) = {db[k] : k \in {x \in DOMAIN db :
                                                 Matches(db[x], ret.topic, ret.filter)}}
           /\ \A a, b \in 1..Len(ret.val) :
                  /\ a # b => ret.val[a] # ret.val[b]
                  /\ a < b => ret.val[a].published >= ret.val[b].published
           /\ \A k \in DOMAIN db :
                  (db[k].topic = ret.topic /\ db[k].published >= 0
                   /\ now = db[k].published + 45)
                      => (db[k] \in Range(ret.val) <=> ret.filter \in {"", "new"})
    /\ \A t \in Topics :
           LET res(f) == Range(QueryResult(db, db_keys, t, f, now)) IN
           /\ res("fresh") \cap res("new") = {}
           /\ res("fresh") \cap res("old") = {}
           /\ res("new") \cap res("old") = {}

\* A record stored at its published instant is returned by the "new" query
\* 45 minutes later.
C6_Witness ==
    /\ ret.op = "query"
    /\ ret.filter = "new"
    /\ \E i \in 1..Len(ret.val) :
           /\ ret.val[i].fetched_at = ret.val[i].published
           /\ now = ret.val[i].published + 45

\* C7: every read that serves stored articles reports the status the
\* classifier gives at the instant of the read: the query by topic does, and
\* so does the notifier's collection of fresh items, each of which was
\* published at most 30 minutes before the collection.
C7_StatusAtRead ==
    ret.op \in {"query", "collect"} =>
        \A i \in 1..Len(ret.val) :
            /\ ret.val[i].status = classify_news_status(ret.val[i].published, now)
            /\ ret.op = "collect" => now - ret.val[i].published <= 30

Storable(item) == item.title # <<>> /\ item.link # ""

\* The first storable item of the batch with this key is item i.
FirstWithKey(batch, i) ==
    /\ Storable(batch[i])
    /\ \A h \in 1..(i - 1) :
           ~(Storable(batch[h]) /\ normalize(batch[h].title) = normalize(batch[i].title))

\* C8: add_news_batch leaves every record that was stored as it was, key and
\* all fields; a key it adds holds the first storable item of the batch with
\* that normalized title, so an item whose normalized title is stored
\* already, or came earlier in the batch, is not stored, whatever its link
\* and topic.
C8_ExistingKeyWins ==
    [][ret'.op = "add" =>
          /\ \A k \in DOMAIN db : k \in DOMAIN db' /\ db'[k] = db[k]
          /\ \A k \in DOMAIN db' \ DOMAIN db :
                 \E i \in 1..Len(ret'.batch) :
                     /\ FirstWithKey(ret'.batch, i)
                     /\ normalize(ret'.batch[i].title) = k
                     /\ db'[k].link = ret'.batch[i].link
                     /\ db'[k].title = ret'.batch[i].title
                     /\ db'[k].topic = ret'.topic]_vars

\* A batch brought an item whose normalized title was stored under another
\* link and another topic; the stored record is still there.
C8_Witness ==
    /\ ret.op = "add"
    /\ \E i \in 1..Len(ret.batch) :
           LET k == normalize(ret.batch[i].title) IN
           /\ Storable(ret.batch[i])
           /\ k \in DOMAIN db
           /\ db[k].link # ret.batch[i].link
           /\ db[k].topic # ret.topic
           /\ db[k].fetched_at < now

Returned(item, topic, result) ==
    \E n \in Range(result) :
        n.link = item.link /\ n.title = item.title /\ n.topic = topic

\* C9 as stated: every storable item of a batch whose normalized title was
\* not stored before the call is returned by the unfiltered query of the
\* batch's topic.
C9_Original ==
    [][ret'.op = "add" =>
          \A i \in 1..Len(ret'.batch) :
              (Storable(ret'.batch[i]) /\ normalize(ret'.batch[i].title) \notin DOMAIN db)
                  => Returned(ret'.batch[i], ret'.topic,
                              QueryResult(db', db_keys', ret'.topic, "", now'))]_vars

\* C9, amended: every storable item of a batch whose normalized title was
\* neither stored before the call nor carried by an earlier storable item of
\* the batch is returned by the unfiltered query of the batch's topic with
\* the same link, title and topic.
C9_RoundTrip ==
    [][ret'.op = "add" =>
          \A i \in 1..Len(ret'.batch) :
              (FirstWithKey(ret'.batch, i) /\ normalize(ret'.batch[i].title) \notin DOMAIN db)
                  => Returned(ret'.batch[i], ret'.topic,
                              QueryResult(db', db_keys', ret'.topic, "", now'))]_vars

\* A batch has just stored an item whose title is not its own normalization,
\* and the unfiltered query returns it.
C9_Witness ==
    /\ ret.op = "add"
    /\ \E i \in 1..Len(ret.batch) :
           /\ FirstWithKey(ret.batch, i)
           /\ normalize(ret.batch[i].title) # ret.batch[i].title
           /\ db[normalize(ret.batch[i].title)].fetched_at = now
           /\ Returned(ret.batch[i], ret.topic, QueryResult(db, db_keys, ret.topic, "", now))

\* C10: every stored record has a link, a title and a status among fresh,
\* new and old.
C10_RecordsWellFormed ==
    \A k \in DOMAIN db :
        /\ db[k].link # ""
        /\ db[k].title # <<>>
        /\ db[k].status \in {"fresh", "new", "old"}

\* A batch with an item without link and an item without title has been
\* added, and of that batch only the complete item is stored.
C10_Witness ==
    /\ ret.op = "add"
    /\ \E i \in 1..Len(ret.batch) : ret.batch[i].link = ""
    /\ \E i \in 1..Len(ret.batch) : ret.batch[i].title = <<>>
    /\ \E k \in DOMAIN db : db[k].fetched_at = now
    /\ Cardinality(DOMAIN db) = 1

-----------------------------------------------------------------------------
(* Properties of the store while sentiments are assigned.                   *)

SameSentiment(a, b) ==
    a.sentiment = b.sentiment /\ a.probabilities = b.probabilities

\* C11: an assigned sentiment is left alone by everything but an explicit
\* reclassification: batch insertion, the query by topic with its status
\* write-back, markRead and deleteByLink leave the sentiment and the
\* probabilities of every record that stays stored as they were, and the
\* classification job writes only to records whose sentiment is null, so a
\* non-null sentiment never changes in a step of the store.
C11_SentimentFrame ==
    [][\A k \in DOMAIN db \cap DOMAIN db' :
          /\ ret'.op \in {"add", "query", "read", "delete"}
                 => SameSentiment(db'[k], db[k])
          /\ db[k].sentiment # NoSentiment => SameSentiment(db'[k], db[k])]_vars

\* C12: when a classification run makes its last update, every record it
\* read with a null sentiment, and that was not deleted since, carries the
\* label and the distribution the classifier computes for that record's own
\* title.
C12_SweepClassifiesAll ==
    [][(cls.pc = "update" /\ cls'.pc = "idle") =>
          \A i \in 1..Len(cls.pending) :
              LET k == normalize(cls.pending[i].text) IN
              (k \notin cls.gone /\ k \in DOMAIN db') =>
                  LET own == classify_texts(<<db'[k].title>>)[1] IN
                  /\ db'[k].sentiment # NoSentiment
                  /\ db'[k].sentiment = own.sentiment
                  /\ db'[k].probabilities = own.probabilities]_vars

\* C13: deleteByLink answers true exactly when a stored record has the link;
\* after a true answer no stored record has the link (so the same call made
\* again answers false); after a false answer the store is as it was.
C13_DeleteByLink ==
    [][ret'.op = "delete" =>
          LET had == \E k \in DOMAIN db : db[k].link = ret'.link IN
          /\ ret'.val = <<had>>
          /\ had => \A k \in DOMAIN db' : db'[k].link # ret'.link
          /\ ~had => (db' = db /\ db_keys' = db_keys)]_vars

-----------------------------------------------------------------------------
(* GoogleNewsFeed.fetch and its cache (news/feeds/google.py).               *)

\* feeds/google.py:25
_CACHE_TTL_SEC == 60

\* The last second of the clock.
MaxSeconds == 120

\* The time that passes between two events.
Elapsed == {30, 60}

\* The threads that call fetch: the scheduler's run and a forced one.
Fetchers == JobIds

\* The feeds that are fetched: one query bound under two regions.
CachedFeeds == {GoogleNewsFeed("t1", r) : r \in Regions}

\* What a request that succeeds is parsed into.
Parsed == {<<>>, <<ArtAb>>}

\* GoogleNewsFeed._cache_key (feeds/google.py:45-46): query, hl, region, ceid
\* and max_items; hl and ceid are functions of the region (lines 41-43) and
\* max_items is 20 wherever a feed is built.
_cache_key(feed) == <<"gnews", feed.query, feed.region>>

IdleFetch == [pc |-> "idle", ckey |-> <<>>, now |-> 0]

NoFetch == [by |-> "", ckey |-> <<>>, at |-> 0, how |-> "none", data |-> <<>>]

FeedInit ==
    /\ _CACHE = EmptyMap
    /\ fetch = [f \in Fetchers |-> IdleFetch]
    /\ clock = 0
    /\ served = NoFetch
    /\ succeeded = EmptyMap

\* `cached and cached["expires"] > now` (feeds/google.py:51-52); the entry is
\* a dict of two keys and so is true whenever there is one.
Cached(ckey, at) == ckey \in DOMAIN _CACHE /\ _CACHE[ckey].expires > at

\* Time passes.
Elapse(d) ==
    /\ clock + d <= MaxSeconds
    /\ clock' = clock + d
    /\ UNCHANGED <<_CACHE, fetch, served, succeeded, trackerVars, storeVars, probe>>

\* fetch up to the request (feeds/google.py:49-70): the entry of the key is
\* returned while it has not expired, else the request is sent.
FetchBegin(f, feed) ==
    LET ckey == _cache_key(feed) IN
    /\ fetch[f].pc = "idle"
    /\ IF Cached(ckey, clock)
       THEN /\ served' = [by |-> f, ckey |-> ckey, at |-> clock, how |-> "cache",
                          data |-> _CACHE[ckey].data]
            /\ UNCHANGED fetch
       ELSE /\ fetch' = [fetch EXCEPT ![f] = [pc |-> "request", ckey |-> ckey, now |-> clock]]
            /\ served' = [by |-> f, ckey |-> ckey, at |-> clock, how |-> "request",
                          data |-> <<>>]
    /\ UNCHANGED <<_CACHE, clock, succeeded, trackerVars, storeVars, probe>>

\* The request raised a RequestException, or raise_for_status did
\* (feeds/google.py:72-74): [] is returned and the cache is left alone.
FetchFail(f) ==
    /\ fetch[f].pc = "request"
    /\ served' = [by |-> f, ckey |-> fetch[f].ckey, at |-> fetch[f].now, how |-> "failed",
                  data |-> <<>>]
    /\ fetch' = [fetch EXCEPT ![f] = IdleFetch]
    /\ UNCHANGED <<_CACHE, clock, succeeded, trackerVars, storeVars, probe>>

\* The request succeeded (feeds/google.py:76-125): the parsed list is stored
\* under the key with an expiry counted from the time read at line 49, and
\* returned.
FetchOk(f, news) ==
    /\ fetch[f].pc = "request"
    /\ _CACHE' = Put(_CACHE, fetch[f].ckey,
                     [expires |-> fetch[f].now + _CACHE_TTL_SEC, data |-> news])
    /\ served' = [by |-> f, ckey |-> fetch[f].ckey, at |-> fetch[f].now, how |-> "network",
                  data |-> news]
    /\ succeeded' = Put(succeeded, fetch[f].ckey,
                        [at |-> IF fetch[f].ckey \in DOMAIN succeeded
                                   /\ succeeded[fetch[f].ckey].at > fetch[f].now
                                THEN succeeded[fetch[f].ckey].at ELSE fetch[f].now,
                         data |-> news])
    /\ fetch' = [fetch EXCEPT ![f] = IdleFetch]
    /\ UNCHANGED <<clock, trackerVars, storeVars, probe>>

-----------------------------------------------------------------------------
(* Specifications.                                                          *)

Init ==
    /\ TrackerInit
    /\ StoreInit
    /\ probe = NoProbe
    /\ FeedInit

\* No sweep of topic t is in flight.
Quiet(t) == \A j \in JobIds : t \notin job[j].pending /\ sweep[<<j, t>>].pc = "idle"

\* The interval job: max_instances=1 keeps its runs from overlapping
\* (api/main.py:93-99).
Scheduled == {"sched"}

\* The tracker under the scheduler alone: one update_all at a time, topics
\* registered and removed between sweeps. A topic is first registered with the
\* default region; a call for a registered topic names any region.
Next ==
    \/ \E t \in Topics, region \in Regions :
           Quiet(t) /\ (region = "US" \/ t \in DOMAIN feeds) /\ add_topic(t, region)
    \/ \E t \in Topics : Quiet(t) /\ remove_topic(t)
    \/ \E j \in Scheduled : UpdateAllStart(j)
    \/ \E j \in Scheduled, t \in Topics : SweepStart(j, t)
    \/ \E j \in Scheduled, t \in Topics :
           \E items \in FeedResponses(t) : FetchResult(j, t, FALSE, items)
    \/ \E j \in Scheduled, t \in Topics : FetchResult(j, t, TRUE, <<>>)
    \/ \E j \in Scheduled, t \in Topics, hit \in BOOLEAN : CheckItem(j, t, hit)
    \/ \E j \in Scheduled, t \in Topics : InsertItem(j, t)
    \/ \E j \in Scheduled, t \in Topics : AppendItem(j, t)
    \/ \E j \in Scheduled, t \in Topics : SortNews(j, t)
    \/ \E j \in Scheduled, t \in Topics : PruneWrite(j, t)
    \/ \E j \in Scheduled, t \in Topics : FinishSweep(j, t)
    \/ \E j \in Scheduled : UpdateAllFinish(j)

Spec == Init /\ [][Next]_vars

\* The topic that is removed while it is swept.
Removable == {"t1"}

\* What the feeds return while topics are removed.
RaceResponses(t) ==
    IF t = "t1"
    THEN { <<ArtAb, ArtC>> }
    ELSE { <<ArtB>> }

\* The tracker after the API module's registration loop (api/main.py:89-90),
\* with the two topics as its defaults.
InitRace ==
    /\ feeds = [t \in Topics |-> <<GoogleNewsFeed(t, "US")>>]
    /\ all_news = [t \in Topics |-> <<>>]
    /\ seen_links = [t \in Topics |-> {}]
    /\ last_fetched = [t \in Topics |-> <<>>]
    /\ lsh_index = [t \in Topics |-> EmptyMap]
    /\ minhashes = [t \in Topics |-> EmptyMap]
    /\ _next_id = 0
    /\ _lock = NoHolder
    /\ last_updated = NoPub
    /\ job = [j \in JobIds |-> IdleJob]
    /\ sweep = [s \in Sweeps |-> IdleSweep]
    /\ api = NoCall
    /\ rm = [r \in Removers |-> IdleRemove]
    /\ StoreInit
    /\ probe = NoProbe
    /\ FeedInit

\* The tracker with the topic API served in request threads of their own while
\* the scheduler's update_all runs: remove_topic takes no lock, and each of its
\* lines is a step.
NextRace ==
    \/ \E region \in Regions : Quiet("t1") /\ add_topic("t1", region)
    \/ \E t \in Removable : RemoveCheck("r1", t)
    \/ RemoveDel("r1")
    \/ \E j \in Scheduled : UpdateAllStart(j)
    \/ \E j \in Scheduled, t \in Topics : SweepStart(j, t)
    \/ \E j \in Scheduled, t \in Topics :
           \E items \in RaceResponses(t) : FetchResult(j, t, FALSE, items)
    \/ \E j \in Scheduled, t \in Topics : FetchResult(j, t, TRUE, <<>>)
    \/ \E j \in Scheduled, t \in Topics, hit \in BOOLEAN : CheckItem(j, t, hit)
    \/ \E j \in Scheduled, t \in Topics : InsertItem(j, t)
    \/ \E j \in Scheduled, t \in Topics : AppendItem(j, t)
    \/ \E j \in Scheduled, t \in Topics : SortNews(j, t)
    \/ \E j \in Scheduled, t \in Topics : FinishSweep(j, t)
    \/ \E j \in Scheduled : UpdateAllFinish(j)

SpecRace == InitRace /\ [][NextRace]_vars

\* The topic that two callers refresh together.
Forced == {"t1"}

\* What its feed returns meanwhile.
ForceResponses == { <<ArtAb>>, <<ArtC, ArtAb>> }

\* The tracker with that topic registered.
InitForce ==
    /\ feeds = [t \in Forced |-> <<GoogleNewsFeed(t, "US")>>]
    /\ all_news = [t \in Forced |-> <<>>]
    /\ seen_links = [t \in Forced |-> {}]
    /\ last_fetched = [t \in Forced |-> <<>>]
    /\ lsh_index = [t \in Forced |-> EmptyMap]
    /\ minhashes = [t \in Forced |-> EmptyMap]
    /\ _next_id = 0
    /\ _lock = NoHolder
    /\ last_updated = NoPub
    /\ job = [j \in JobIds |-> IdleJob]
    /\ sweep = [s \in Sweeps |-> IdleSweep]
    /\ api = NoCall
    /\ rm = [r \in Removers |-> IdleRemove]
    /\ StoreInit
    /\ probe = NoProbe
    /\ FeedInit

\* The refresh job with both of its callers: the scheduler's thread, which
\* runs one instance at a time (api/main.py:93-99), and the request thread of
\* /force-update, which calls update_and_save_all itself (api/main.py:240-242).
\* The critical section of update_topic is taken statement by statement.
NextForce ==
    \/ \E j \in JobIds : UpdateAllStart(j)
    \/ \E j \in JobIds, t \in Forced : SweepStart(j, t)
    \/ \E j \in JobIds, t \in Forced :
           \E items \in ForceResponses : FetchResult(j, t, FALSE, items)
    \/ \E j \in JobIds, t \in Forced, hit \in BOOLEAN : CheckItem(j, t, hit)
    \/ \E j \in JobIds, t \in Forced : LockAcquire(j, t)
    \/ \E j \in JobIds, t \in Forced : LockedInsert(j, t)
    \/ \E j \in JobIds, t \in Forced : LockRelease(j, t)
    \/ \E j \in JobIds, t \in Forced : AppendItem(j, t)
    \/ \E j \in JobIds, t \in Forced : SortNews(j, t)
    \/ \E j \in JobIds, t \in Forced : PruneWrite(j, t)
    \/ \E j \in JobIds, t \in Forced : FinishSweep(j, t)
    \/ \E j \in JobIds : UpdateAllFinish(j)

SpecForce == InitForce /\ [][NextForce]_vars

\* The scheduler's refresh job as a whole: update_all and then the hand-off
\* of every topic's last batch to the store.
NextHandoff ==
    \/ \E j \in Scheduled : UpdateAllStart(j)
    \/ \E j \in Scheduled, t \in Topics : SweepStart(j, t)
    \/ \E j \in Scheduled, t \in Topics :
           \E items \in FeedResponses(t) : FetchResult(j, t, FALSE, items)
    \/ \E j \in Scheduled, t \in Topics : FetchResult(j, t, TRUE, <<>>)
    \/ \E j \in Scheduled, t \in Topics, hit \in BOOLEAN : CheckItem(j, t, hit)
    \/ \E j \in Scheduled, t \in Topics : InsertItem(j, t)
    \/ \E j \in Scheduled, t \in Topics : AppendItem(j, t)
    \/ \E j \in Scheduled, t \in Topics : SortNews(j, t)
    \/ \E j \in Scheduled, t \in Topics : PruneWrite(j, t)
    \/ \E j \in Scheduled, t \in Topics : FinishSweep(j, t)
    \/ \E j \in Scheduled : update_and_save_all(j)

SpecHandoff == InitRace /\ [][NextHandoff]_vars

\* One caller, two topics swept by two threads of its pool, the critical
\* section statement by statement.
NextLock ==
    \/ \E j \in Scheduled : UpdateAllStart(j)
    \/ \E j \in Scheduled, t \in Topics : SweepStart(j, t)
    \/ \E j \in Scheduled, t \in Topics :
           \E items \in RaceResponses(t) : FetchResult(j, t, FALSE, items)
    \/ \E j \in Scheduled, t \in Topics, hit \in BOOLEAN : CheckItem(j, t, hit)
    \/ \E j \in Scheduled, t \in Topics : LockAcquire(j, t)
    \/ \E j \in Scheduled, t \in Topics : LockedInsert(j, t)
    \/ \E j \in Scheduled, t \in Topics : LockRelease(j, t)
    \/ \E j \in Scheduled, t \in Topics : AppendItem(j, t)
    \/ \E j \in Scheduled, t \in Topics : SortNews(j, t)
    \/ \E j \in Scheduled, t \in Topics : FinishSweep(j, t)
    \/ \E j \in Scheduled : UpdateAllFinish(j)

SpecLock == InitRace /\ [][NextLock]_vars

\* What the two sources of a topic return.
SourceResponses(t) ==
    IF t = "t1"
    THEN { <<ArtAb>>, <<ArtC, ArtAb>>, <<ArtNoLink, ArtAbc>> }
    ELSE { <<ArtB>> }

\* A tracker whose first topic has both feed classes bound, as add_topic's
\* commented-out line would bind them, and whose second has the one that
\* add_topic binds.
InitSources ==
    /\ feeds = [t \in Topics |-> IF t = "t1"
                                  THEN <<GoogleNewsFeed(t, "US"), GdeltFeed(t, "US")>>
                                  ELSE <<GoogleNewsFeed(t, "US")>>]
    /\ all_news = [t \in Topics |-> <<>>]
    /\ seen_links = [t \in Topics |-> {}]
    /\ last_fetched = [t \in Topics |-> <<>>]
    /\ lsh_index = [t \in Topics |-> EmptyMap]
    /\ minhashes = [t \in Topics |-> EmptyMap]
    /\ _next_id = 0
    /\ _lock = NoHolder
    /\ last_updated = NoPub
    /\ job = [j \in JobIds |-> IdleJob]
    /\ sweep = [s \in Sweeps |-> IdleSweep]
    /\ api = NoCall
    /\ rm = [r \in Removers |-> IdleRemove]
    /\ StoreInit
    /\ probe = NoProbe
    /\ FeedInit

\* Sweeps of topics whose sources answer or raise, each on its own.
NextSources ==
    \/ \E j \in Scheduled : UpdateAllStart(j)
    \/ \E j \in Scheduled, t \in Topics : SweepStart(j, t)
    \/ \E j \in Scheduled, t \in Topics :
           \E items \in SourceResponses(t) : FetchResult(j, t, FALSE, items)
    \/ \E j \in Scheduled, t \in Topics : FetchResult(j, t, TRUE, <<>>)
    \/ \E j \in Scheduled, t \in Topics, hit \in BOOLEAN : CheckItem(j, t, hit)
    \/ \E j \in Scheduled, t \in Topics : InsertItem(j, t)
    \/ \E j \in Scheduled, t \in Topics : AppendItem(j, t)
    \/ \E j \in Scheduled, t \in Topics : SortNews(j, t)
    \/ \E j \in Scheduled, t \in Topics : PruneWrite(j, t)
    \/ \E j \in Scheduled, t \in Topics : FinishSweep(j, t)
    \/ \E j \in Scheduled : UpdateAllFinish(j)

SpecSources == InitSources /\ [][NextSources]_vars

\* The tracker after the API module's registration loop, with more topics than
\* update_all's pool has threads; the first has both feed classes bound.
InitPool ==
    /\ feeds = [t \in AllTopics |-> IF t = "t1"
                                     THEN <<GoogleNewsFeed(t, "US"), GdeltFeed(t, "US")>>
                                     ELSE <<GoogleNewsFeed(t, "US")>>]
    /\ all_news = [t \in AllTopics |-> <<>>]
    /\ seen_links = [t \in AllTopics |-> {}]
    /\ last_fetched = [t \in AllTopics |-> <<>>]
    /\ lsh_index = [t \in AllTopics |-> EmptyMap]
    /\ minhashes = [t \in AllTopics |-> EmptyMap]
    /\ _next_id = 0
    /\ _lock = NoHolder
    /\ last_updated = NoPub
    /\ job = [j \in JobIds |-> IdleJob]
    /\ sweep = [s \in Sweeps |-> IdleSweep]
    /\ api = NoCall
    /\ rm = [r \in Removers |-> IdleRemove]
    /\ StoreInit
    /\ probe = NoProbe
    /\ FeedInit

\* update_all over five topics while the feeds have nothing to tell.
NextPool ==
    \/ \E j \in Scheduled : UpdateAllStart(j)
    \/ \E j \in Scheduled, t \in AllTopics : SweepStart(j, t)
    \/ \E j \in Scheduled, t \in AllTopics : FetchResult(j, t, FALSE, <<>>)
    \/ \E j \in Scheduled, t \in AllTopics : FetchResult(j, t, TRUE, <<>>)
    \/ \E j \in Scheduled, t \in AllTopics : SortNews(j, t)
    \/ \E j \in Scheduled, t \in AllTopics : FinishSweep(j, t)
    \/ \E j \in Scheduled : UpdateAllFinish(j)

SpecPool == InitPool /\ [][NextPool]_vars

\* The topic API alone, its requests served in two threads.
NextTopics ==
    \/ \E t \in Topics, region \in Regions : add_topic(t, region)
    \/ \E r \in Removers, t \in Topics : RemoveCheck(r, t)
    \/ \E r \in Removers : RemoveDel(r)

SpecTopics == Init /\ [][NextTopics]_vars

\* The store and the notifier's read of it.
NextStore ==
    \/ \E news_list \in Batches, t \in Topics : add_news_batch(news_list, t)
    \/ \E t \in Topics, f \in {"", "fresh", "new", "old"} : get_news_by_topic(t, f)
    \/ \E l \in Links : mark_read(l)
    \/ \E l \in Links : delete_news(l)
    \/ collect_fresh_news(WindowMinutes)
    \/ \E t \in ClockValues : Tick(t)

SpecStore == Init /\ [][NextStore]_vars

\* The store with the classification job running beside its callers.
NextSentiment ==
    \/ \E news_list \in SentimentBatches : add_news_batch(news_list, "t1")
    \/ get_news_by_topic("t1", "")
    \/ \E l \in SentimentLinks : mark_read(l)
    \/ \E l \in SentimentLinks : delete_news(l)
    \/ ClassifyStart
    \/ ClassifyUpdate
    \/ Tick(61)

SpecSentiment == Init /\ [][NextSentiment]_vars

\* The store with the classification job and the notifier, the classifier and
\* the mail client failing or not.
NextFailure ==
    \/ \E news_list \in SentimentBatches : add_news_batch(news_list, "t1")
    \/ ClassifyStart
    \/ ClassifyUpdate
    \/ ClassifyFails
    \/ \E sends \in BOOLEAN : send_fresh_email_job(WindowMinutes, sends)
    \/ \E sends \in BOOLEAN : notify_outlook(WindowMinutes, sends)
    \/ Tick(61)

SpecFailure == Init /\ [][NextFailure]_vars

\* The store called from several threads at once (request threads and the
\* scheduler's jobs), each operation in the steps of its with block.
NextLocked ==
    \/ \E c \in Callers, o \in StoreOps : Enter(c, o)
    \/ \E c \in Callers : Leave(c)
    \/ Tick(61)

SpecLocked == Init /\ [][NextLocked]_vars

\* The store started on a file that save_db did not write.
InitLoad ==
    /\ TrackerInit
    /\ db = EmptyMap
    /\ db_keys = <<>>
    /\ cls = IdleCls
    /\ now = 30
    /\ ret = NoRet
    /\ db_lock = NoHolder
    /\ call = [c \in Callers |-> IdleCall]
    /\ raw \in Files
    /\ probe = NoProbe
    /\ FeedInit

NextLoad ==
    \/ ReadFile
    \/ \E news_list \in SentimentBatches : AddToFile(news_list, "t1")

SpecLoad == InitLoad /\ [][NextLoad]_vars

\* The classifier.
NextClassify == Classify

InitClassify ==
    /\ TrackerInit
    /\ StoreInit
    /\ FeedInit
    /\ probe \in {[published |-> p, at |-> t, status |-> "unset"] :
                     p \in ProbePublished, t \in 0..MaxMinute}

SpecClassify == InitClassify /\ [][NextClassify]_vars

-----------------------------------------------------------------------------
(* Properties of the topic API.                                             *)

\* The six per-topic dicts of the tracker (news_tracker.py:17-22).
TopicState == <<feeds, all_news, seen_links, last_fetched, lsh_index, minhashes>>

\* The dicts that still have an entry for topic t.
Holding(t) ==
    {n \in {"feeds", "all_news", "seen_links", "last_fetched", "lsh_index", "minhashes"} :
        CASE n = "feeds" -> t \in DOMAIN feeds
          [] n = "all_news" -> t \in DOMAIN all_news
          [] n = "seen_links" -> t \in DOMAIN seen_links
          [] n = "last_fetched" -> t \in DOMAIN last_fetched
          [] n = "lsh_index" -> t \in DOMAIN lsh_index
          [] n = "minhashes" -> t \in DOMAIN minhashes}

\* C14: registerTopic for a name that is already registered, whatever region
\* it is called with, leaves the topic's feed bindings, article list, seen
\* links, last-fetched batch, index and signatures as they were.
C14_RegisterIdempotent ==
    [][(api'.op = "add_topic" /\ api'.result = "exists") => UNCHANGED TopicState]_vars

\* A registered topic with articles and an index has been registered again.
C14_Witness ==
    /\ api.op = "add_topic"
    /\ api.result = "exists"
    /\ all_news[api.topic] # <<>>
    /\ lsh_index[api.topic] # EmptyMap
    /\ last_fetched[api.topic] # <<>>

\* C15: once removeTopic of a registered topic has returned, none of the
\* per-topic dicts has an entry for the name.
C15_RemoveDropsAll ==
    (api.op = "remove_topic" /\ api.result = "success") => Holding(api.topic) = {}

\* C16: removeTopic answers success or NotFound and nothing else, also when
\* two calls for the same topic run at once; with NotFound it changes none of
\* the tracker's dicts.
C16_RemoveNotFound ==
    [][api'.op = "remove_topic" =>
          /\ api'.result \in {"success", "NotFound"}
          /\ api'.result = "NotFound" => UNCHANGED TopicState]_vars

\* A remove_topic of topic t has passed its check and not yet returned.
Removing(t) == \E r \in Removers : rm[r].pc # "idle" /\ rm[r].topic = t

\* C17: for a topic that is not registered, with no removal of it under way,
\* lastFetched and allKnown return the empty sequence, also when a sweep of the
\* topic was in flight while it was removed.
C17_UnregisteredEmpty ==
    \A t \in Topics :
        (t \notin DOMAIN feeds /\ ~Removing(t)) =>
            (get_last_news(t) = <<>> /\ allKnown(t) = <<>>)

-----------------------------------------------------------------------------
(* Properties of the sweeps under failures.                                 *)

\* C19: when update_all returns, every topic it submitted has had its sweep
\* run to its end, a topic that nobody removed without an exception, and the
\* completion time is recorded, whether or not a sweep raised.
C19_TopicIsolation ==
    [][\A j \in JobIds :
          (job[j].pc = "running" /\ job'[j].pc = "idle") =>
              /\ last_updated' = now
              /\ \A t \in job[j].topics :
                    /\ sweep[<<j, t>>].pc \in {"done", "raised"}
                    /\ t \notin Removable => sweep[<<j, t>>].pc = "done"]_vars

\* update_all has returned after the sweep of a topic removed under it
\* raised, and the other topic has its article.
C19_Witness ==
    /\ api.op = "update_all"
    /\ api.result = "error printed"
    /\ last_updated = now
    /\ "t2" \in DOMAIN all_news
    /\ all_news["t2"] # <<>>

\* The verdicts of a sweep's log, one per item the sources returned.
Verdicts(log) == SelectSeq(log, LAMBDA x : x # "error")

\* C18: a source whose fetch raises is logged and adds nothing; the sweep never
\* ends with an exception, and when its loop is over every item that any source
\* returned has had its verdict: the admitted ones are in the topic's list, and
\* whatever has a link and was not a near duplicate is among the seen links.
C18_SourceIsolation ==
    \A j \in JobIds, t \in Topics :
        LET sw == sweep[<<j, t>>] IN
        /\ sw.pc \notin {"raised", "unwind"}
        /\ Len(sw.fresh) = Count(sw.log, "admitted")
        /\ sw.pc = "finish" =>
              /\ sw.nfut = 0
              /\ Len(Verdicts(sw.log)) = Len(sw.got)
              /\ Len(all_news[t]) = sw.base + Len(sw.fresh)
              /\ \A i \in 1..Len(sw.got) :
                    /\ Verdicts(sw.log)[i] = "admitted" =>
                          \E n \in Range(all_news[t]) :
                              n.link = sw.got[i].link /\ n.title = sw.got[i].title
                    /\ Verdicts(sw.log)[i] \notin {"nolink", "dup"} =>
                          sw.got[i].link \in seen_links[t]
                    /\ Verdicts(sw.log)[i] = "nolink" <=> sw.got[i].link = ""

\* One of a topic's two sources raised and the sweep went on to admit what the
\* other returned.
C18_Witness ==
    LET sw == sweep[<<"sched", "t1">>] IN
    /\ sw.pc = "done"
    /\ sw.workers = 2
    /\ Count(sw.log, "error") = 1
    /\ Count(sw.log, "admitted") = 2
    /\ Len(all_news["t1"]) = 2

-----------------------------------------------------------------------------
(* Properties of the pools.                                                 *)

\* The fetches in flight in the sweeps of update_all j.
FetchesInFlight(j) ==
    LET RECURSIVE Sum(_)
        Sum(S) == IF S = {} THEN 0
                  ELSE LET t == CHOOSE x \in S : TRUE
                       IN  sweep[<<j, t>>].nrun + Sum(S \ {t})
    IN  Sum(AllTopics)

\* C20: a sweep has at most min(#sources, 8) fetches in flight, an update_all
\* at most min(#topics, 4) sweeps running, and so at most 4 x 8 fetches in
\* flight.
C20_BoundedConcurrency ==
    \A j \in JobIds :
        /\ Cardinality(Running(j)) <= Min(Cardinality(job[j].topics), _MAX_TOPIC_WORKERS)
        /\ \A t \in DOMAIN feeds :
              sweep[<<j, t>>].nrun <= Min(Len(feeds[t]), _MAX_FETCH_WORKERS)
        /\ FetchesInFlight(j) <= _MAX_TOPIC_WORKERS * _MAX_FETCH_WORKERS

\* The pool is full while a topic still waits, and the topic with two sources
\* has both fetches in flight.
C20_Witness ==
    /\ Cardinality(Running("sched")) = _MAX_TOPIC_WORKERS
    /\ job["sched"].pending # {}
    /\ sweep[<<"sched", "t1">>].nrun = 2
    /\ FetchesInFlight("sched") = 5

-----------------------------------------------------------------------------
(* Properties of the jobs and of the tracker's lock.                        *)

\* C21: at most one instance of the refresh job is running at any time,
\* whether the scheduler or the force-update endpoint started it.
C21_OneInstance ==
    Cardinality({j \in JobIds : job[j].pc = "running"}) <= 1

\* C28: also when two sweeps of one topic overlap, the topic's list never has
\* two items with one link and its index never has two entries with
\* signatures that match each other for certain (equal ones).
C28_SerializedPerTopic ==
    \A t \in DOMAIN all_news :
        /\ \A a, b \in 1..Len(all_news[t]) :
               a # b => all_news[t][a].link # all_news[t][b].link
        /\ \A k, l \in DOMAIN lsh_index[t] :
               k # l => lsh_index[t][k] # lsh_index[t][l]

\* The ids in the indexes of all topics.
IndexedIds == UNION {DOMAIN lsh_index[t] : t \in DOMAIN lsh_index}

\* The items that carry an id: the listed ones and those between the critical
\* section and the append, each named by where it is.
Numbered ==
    UNION {{<<"list", t, i>> : i \in 1..Len(all_news[t])} : t \in DOMAIN all_news}
    \cup {<<"cur", s, 1>> : s \in {u \in Sweeps : sweep[u].pc \in {"numbered", "append"}}}

IdOf(n) == IF n[1] = "list" THEN all_news[n[2]][n[3]].id ELSE sweep[n[2]].cur[1].id

C30_PerTopicLock ==
    \A s \in Sweeps :
        (sweep[s].pc = "insert" /\ _lock # NoHolder) => _lock[2] = s[2]

-----------------------------------------------------------------------------
(* Properties of the order of a topic's lists.                              *)

\* Most recent first, the undated items (NoPub) after every dated one.
Descending(lst) ==
    \A a, b \in 1..Len(lst) : a < b => lst[a].published >= lst[b].published

\* The raw items of a sweep that its loop admitted.
AdmittedBy(sw) ==
    {i \in 1..Len(sw.got) : Verdicts(sw.log)[i] = "admitted"}

\* C25: when update_topic returns, the batch it recorded for the topic has
\* min(limit, k) items, k being the number this sweep admitted; each is an
\* item this sweep fetched and admitted, none occurs twice;
\* the batch is in descending order of published, undated last, and no
\* admitted item left out is more recent than one that is in.
C25_LastFetched ==
    [][\A s \in Sweeps :
          (sweep[s].pc = "record" /\ sweep'[s].pc = "done") =>
              LET sw == sweep[s]
                  t == s[2]
                  batch == last_fetched'[t]
                  k == Count(sw.log, "admitted")
                  In(i) == \E n \in 1..Len(batch) :
                               /\ batch[n].link = sw.got[i].link
                               /\ batch[n].title = sw.got[i].title
                               /\ batch[n].published = sw.got[i].published
              IN  /\ Len(batch) = Min(DefaultLimit, k)
                  /\ \A n \in 1..Len(batch) :
                        \E i \in AdmittedBy(sw) :
                            /\ batch[n].link = sw.got[i].link
                            /\ batch[n].title = sw.got[i].title
                  /\ \A m, n \in 1..Len(batch) : m # n => batch[m].id # batch[n].id
                  /\ Descending(batch)
                  /\ \A i \in AdmittedBy(sw) :
                        ~In(i) => \A n \in 1..Len(batch) :
                                      sw.got[i].published <= batch[n].published]_vars

\* A sweep has returned that admitted more than the limit: the batch has as
\* many items as the limit allows, and the admitted item it leaves out is
\* older than those it has.
C25_Witness ==
    \E t \in DOMAIN last_fetched :
        LET sw == sweep[<<"sched", t>>] IN
        /\ sw.pc = "done"
        /\ Count(sw.log, "admitted") > DefaultLimit
        /\ Len(last_fetched[t]) = DefaultLimit
        /\ \E i \in 1..Len(sw.fresh) :
               \A n \in 1..Len(last_fetched[t]) :
                   sw.fresh[i].published < last_fetched[t][n].published

\* C26: when update_topic returns, the topic's list is in descending order of
\* published with the undated items last; and the eviction keeps the head of
\* that order: the list is cut to the cap, no evicted item is more recent than
\* a retained one, and no dated item is evicted while an undated one stays.
C26_SortedEviction ==
    [][\A s \in Sweeps :
          LET t == s[2] IN
          /\ (sweep[s].pc = "record" /\ sweep'[s].pc = "done") =>
                 Descending(all_news'[t])
          /\ (sweep[s].pc = "prune_write" /\ sweep'[s].pc = "record") =>
                 LET before == all_news[t]
                     after == all_news'[t]
                     kept == {after[n].id : n \in 1..Len(after)}
                     evicted == {i \in 1..Len(before) : before[i].id \notin kept}
                 IN  /\ Len(after) = _MAX_ITEMS_PER_TOPIC
                     /\ kept \subseteq {before[i].id : i \in 1..Len(before)}
                     /\ Descending(after)
                     /\ \A i \in evicted, n \in 1..Len(after) :
                            /\ before[i].published <= after[n].published
                            /\ after[n].published = NoPub => before[i].published = NoPub]_vars

\* A sweep has returned after an eviction that dropped an undated item and
\* kept the dated ones.
C26_Witness ==
    \E t \in DOMAIN all_news :
        LET sw == sweep[<<"sched", t>>] IN
        /\ sw.pc = "done"
        /\ Len(sw.fresh) + sw.base > _MAX_ITEMS_PER_TOPIC
        /\ \E i \in 1..Len(sw.fresh) :
               /\ sw.fresh[i].published = NoPub
               /\ \A n \in 1..Len(all_news[t]) : all_news[t][n].id # sw.fresh[i].id
        /\ \A n \in 1..Len(all_news[t]) : all_news[t][n].published # NoPub

-----------------------------------------------------------------------------
(* Properties of the hand-off to the store.                                 *)

\* C27: when update_and_save_all returns, every article that one of its
\* sweeps admitted to a topic's list has been handed to add_news_batch,
\* however many the sweep admitted.
C27_HandoffComplete ==
    [][\A j \in JobIds :
          (job[j].pc = "running" /\ job'[j].pc = "idle") =>
              \A t \in job[j].topics :
                  \A i \in 1..Len(sweep[<<j, t>>].fresh) :
                      \E n \in 1..Len(ret'.batch) :
                          /\ ret'.batch[n].link = sweep[<<j, t>>].fresh[i].link
                          /\ ret'.batch[n].title = sweep[<<j, t>>].fresh[i].title]_vars

-----------------------------------------------------------------------------
(* Properties of the failures of the classifier and the notifier.           *)

\* C24: when the classifier raises inside classify_pending_news, or the send
\* raises inside the notification job or the notify endpoint, the call
\* returns: no exception goes out of it.
C24_FailuresCaught ==
    ret.op \in {"classify", "send_fresh_email_job", "notify_outlook"} => ~ret.raised

-----------------------------------------------------------------------------
(* Properties of the store's lock.                                          *)

\* C22: every store operation is atomic under the store's lock: when an
\* operation leaves its block, no other caller is inside one, and the store
\* it leaves is what the operation makes of the store as it was just before,
\* so the operations take effect one after another in the order they leave
\* and none undoes what another saved.
C22_StoreSerialized ==
    [][\A c \in Callers :
          (call[c].pc = "held" /\ call'[c].pc = "idle") =>
              /\ \A o \in Callers \ {c} : call[o].pc # "held"
              /\ db_lock = <<c>>
              /\ db' = Saved(call[c], db, db_keys, now).db
              /\ db_keys' = Saved(call[c], db, db_keys, now).keys]_vars

\* One caller has deleted a record that another had added, and the next
\* operation is inside its block on a store that holds a record.
C22_Witness ==
    /\ ret.op = "delete"
    /\ db_lock = <<"c1">>
    /\ call["c1"].op = "sentiment"
    /\ DOMAIN call["c1"].db # {}
    /\ call["c2"].pc = "idle"

-----------------------------------------------------------------------------
(* Properties of the store on a damaged file.                               *)

\* The file is no JSON, or it is an array with an object in which a field
\* without a default is missing or null.
Corrupted(f) ==
    \/ f.kind = "garbage"
    \/ /\ f.kind = "list"
       /\ \E i \in 1..Len(f.records) :
              \/ ~(RequiredKeys \subseteq f.records[i].has)
              \/ RequiredKeys \cap f.records[i].null # {}

\* C23: on a corrupted file every store operation returns instead of raising
\* and takes the corpus for empty: a read returns nothing, and add_news_batch
\* leaves a corpus of the new records alone.
C23_CorruptIsEmpty ==
    [][Corrupted(raw) =>
          /\ ~ret'.raised
          /\ ret'.op = "all" => ret'.val = <<>>
          /\ ret'.op = "add" =>
                /\ raw' = NoFile
                /\ db' = AddLoop(ret'.batch, EmptyMap, {}, ret'.topic, now)]_vars

-----------------------------------------------------------------------------
(* Properties of removal as seen by other threads.                          *)

\* The dicts remove_topic deletes from (api/main.py:286-289).
Deleted == {"feeds", "all_news", "seen_links", "last_fetched"}

\* C31: no thread running beside remove_topic, a reader or a sweep in flight,
\* can find the topic in some of the dicts that remove_topic deletes from and
\* missing from the others.
C31_RemoveAtomic ==
    \A t \in Topics : Holding(t) \cap Deleted \in {{}, Deleted}

-----------------------------------------------------------------------------
(* Properties of the items a sweep rejects.                                 *)

\* The verdicts with which the loop body skips an item.
Rejections == {"nolink", "seen", "dup"}

\* C33: the step in which a sweep skips an item, for a missing link, a link
\* already seen or a hit of the index, changes none of the id counter, the
\* topic's index and signatures, its seen links, its list and the sweep's
\* fresh list; the link of a near duplicate is not among the seen links
\* afterwards.
C33_RejectionFrame ==
    [][\A j \in JobIds, t \in Topics :
          LET s == <<j, t>> IN
          (/\ Len(sweep'[s].log) = Len(sweep[s].log) + 1
           /\ sweep'[s].log[Len(sweep'[s].log)] \in Rejections) =>
              /\ _next_id' = _next_id
              /\ lsh_index'[t] = lsh_index[t]
              /\ minhashes'[t] = minhashes[t]
              /\ seen_links'[t] = seen_links[t]
              /\ all_news'[t] = all_news[t]
              /\ sweep'[s].fresh = sweep[s].fresh
              /\ sweep'[s].log[Len(sweep'[s].log)] = "dup" =>
                    Head(sweep[s].queue).link \notin seen_links'[t]]_vars

\* A sweep has skipped an item without a link and a near duplicate of an
\* article it admitted, and the near duplicate's link is not seen.
C33_Witness ==
    LET sw == sweep[<<"sched", "t1">>] IN
    /\ sw.pc = "done"
    /\ Count(sw.log, "dup") = 1
    /\ Count(sw.log, "nolink") = 1
    /\ Count(sw.log, "admitted") >= 1
    /\ ArtAbc.link \notin seen_links["t1"]
    /\ ArtAb.link \in seen_links["t1"]

-----------------------------------------------------------------------------
(* Properties of the seen links.                                            *)

\* The links of the articles of a list.
LinksOf(lst) == {lst[n].link : n \in 1..Len(lst)}

\* C34: for a registered topic the links of the articles of its list are among
\* its seen links; while the topic stays registered no link leaves the seen
\* links, the eviction included, and no article is appended whose link was
\* seen already, so that an evicted article does not come back.
C34_SeenCoversList ==
    [][\A t \in Topics :
          /\ t \in DOMAIN feeds' => LinksOf(all_news'[t]) \subseteq seen_links'[t]
          /\ (t \in DOMAIN feeds /\ t \in DOMAIN feeds') =>
                /\ seen_links[t] \subseteq seen_links'[t]
                /\ Len(all_news'[t]) > Len(all_news[t]) =>
                      /\ Len(all_news'[t]) = Len(all_news[t]) + 1
                      /\ all_news'[t][Len(all_news'[t])].link \notin seen_links[t]]_vars

\* A later sweep has been offered an article that an earlier sweep admitted
\* and the cap evicted, and has skipped it as seen.
C34_Witness ==
    \E t \in DOMAIN feeds :
        LET sw == sweep[<<"sched", t>>] IN
        /\ sw.pc = "done"
        /\ sw.base = _MAX_ITEMS_PER_TOPIC
        /\ Len(all_news[t]) = _MAX_ITEMS_PER_TOPIC
        /\ \E i \in 1..Len(sw.got) :
               /\ Verdicts(sw.log)[i] = "seen"
               /\ sw.got[i].link \in seen_links[t]
               /\ sw.got[i].link \notin LinksOf(all_news[t])

-----------------------------------------------------------------------------
(* Properties of the batch against the retained list.                       *)

\* C35: when update_topic returns, every article of the topic's last-fetched
\* batch is in the topic's list, also when _prune_topic_memory cut the list in
\* that sweep.
C35_BatchRetained ==
    [][\A s \in Sweeps :
          LET t == s[2] IN
          (sweep[s].pc = "record" /\ sweep'[s].pc = "done") =>
              \A n \in 1..Len(last_fetched'[t]) :
                  \E i \in 1..Len(all_news'[t]) : all_news'[t][i] = last_fetched'[t][n]]_vars

-----------------------------------------------------------------------------
(* Properties of a topic registered again after its removal.                *)

\* C37: a registration of a name that is not registered, one that was removed
\* before included, leaves the topic with one Google feed of the given region,
\* an empty list, no seen link, an empty last-fetched batch, an empty index
\* and no signature: nothing of what the name held before its removal is left
\* to take part in the checks of the next sweep.
C37_ReRegisterFresh ==
    [][(api'.op = "add_topic" /\ api'.result = "success") =>
          LET t == api'.topic IN
          /\ t \in DOMAIN feeds' /\ t \in DOMAIN all_news'
          /\ t \in DOMAIN seen_links' /\ t \in DOMAIN last_fetched'
          /\ t \in DOMAIN lsh_index' /\ t \in DOMAIN minhashes'
          /\ Len(feeds'[t]) = 1
          /\ feeds'[t][1].kind = "google"
          /\ feeds'[t][1].query = t
          /\ all_news'[t] = <<>>
          /\ seen_links'[t] = {}
          /\ last_fetched'[t] = <<>>
          /\ lsh_index'[t] = EmptyMap
          /\ minhashes'[t] = EmptyMap]_vars

\* A topic has been registered again after it was swept and removed: ids have
\* been given out and no other name was ever registered.
C37_Witness ==
    /\ api.op = "add_topic"
    /\ api.result = "success"
    /\ _next_id > 0
    /\ \A u \in Topics \ {api.topic} : u \notin DOMAIN lsh_index
    /\ lsh_index[api.topic] = EmptyMap

-----------------------------------------------------------------------------
(* Properties of mark_read.                                                 *)

\* C36: mark_read(link) returns True exactly when a stored record has that
\* link and False otherwise, and in both cases the records of the corpus and
\* its keys are what they were before the call.
C36_MarkReadFrame ==
    [][(ret'.op = "read" /\ ret' # ret) =>
          /\ ret'.val = <<\E k \in DOMAIN db : db[k].link = ret'.link>>
          /\ ret'.val \in {<<TRUE>>, <<FALSE>>}
          /\ db' = db
          /\ db_keys' = db_keys]_vars

\* mark_read has found its link in a corpus of more than one record.
C36_Witness ==
    /\ ret.op = "read"
    /\ ret.val = <<TRUE>>
    /\ Len(db_keys) >= 2
    /\ \E k \in DOMAIN db : db[k].link = ret.link
    /\ \E k \in DOMAIN db : db[k].link # ret.link

-----------------------------------------------------------------------------
(* The feed cache.                                                          *)

\* Two threads fetching the feeds of one query, beside the clock.
NextCache ==
    \/ \E d \in Elapsed : Elapse(d)
    \/ \E f \in Fetchers, feed \in CachedFeeds : FetchBegin(f, feed)
    \/ \E f \in Fetchers, news \in Parsed : FetchOk(f, news)
    \/ \E f \in Fetchers : FetchFail(f)

SpecCache == Init /\ [][NextCache]_vars

\* C38: a fetch called less than _CACHE_TTL_SEC seconds after the call of a
\* fetch of the same key whose request succeeded returns the stored list and
\* sends no request; a fetch called when the key has no entry, or at or after
\* its entry's expiry, sends a request; a fetch whose request fails leaves the
\* cache as it was.
C38_CacheTtl ==
    [][\A f \in Fetchers :
          /\ (/\ fetch[f].pc = "idle"
              /\ served' # served
              /\ served'.by = f
              /\ served'.how \in {"cache", "request"}) =>
                 LET k == served'.ckey IN
                 /\ (k \in DOMAIN succeeded /\ clock - succeeded[k].at < _CACHE_TTL_SEC) =>
                        /\ served'.how = "cache"
                        /\ served'.data = succeeded[k].data
                 /\ (k \notin DOMAIN _CACHE \/ clock >= _CACHE[k].expires) =>
                        served'.how = "request"
          /\ (fetch[f].pc = "request" /\ fetch'[f].pc = "idle" /\ served'.how = "failed") =>
                 _CACHE' = _CACHE]_vars

-----------------------------------------------------------------------------
(* Termination of the sweeps.                                               *)

\* What the sources return while termination is followed.
LiveResponses(t) ==
    IF t = "t1"
    THEN { <<ArtC, ArtB>> }
    ELSE { <<ArtB>> }

\* update_all over two topics, one of them with two sources, whose fetches
\* return or raise, with the critical section statement by statement; the
\* lists stay within the cap.
NextLive ==
    \/ \E j \in Scheduled : UpdateAllStart(j)
    \/ \E j \in Scheduled, t \in Topics : SweepStart(j, t)
    \/ \E j \in Scheduled, t \in Topics :
           \E items \in LiveResponses(t) : FetchResult(j, t, FALSE, items)
    \/ \E j \in Scheduled, t \in Topics : FetchResult(j, t, TRUE, <<>>)
    \/ \E j \in Scheduled, t \in Topics, hit \in BOOLEAN : CheckItem(j, t, hit)
    \/ \E j \in Scheduled, t \in Topics : LockAcquire(j, t)
    \/ \E j \in Scheduled, t \in Topics : LockedInsert(j, t)
    \/ \E j \in Scheduled, t \in Topics : LockRelease(j, t)
    \/ \E j \in Scheduled, t \in Topics : AppendItem(j, t)
    \/ \E j \in Scheduled, t \in Topics : SortNews(j, t)
    \/ \E j \in Scheduled, t \in Topics : FinishSweep(j, t)
    \/ \E j \in Scheduled : UpdateAllFinish(j)

\* A step of one of update_all's threads.
ThreadStep ==
    \E j \in Scheduled, t \in Topics :
        \/ SweepStart(j, t)
        \/ \E items \in LiveResponses(t) : FetchResult(j, t, FALSE, items)
        \/ FetchResult(j, t, TRUE, <<>>)
        \/ \E hit \in BOOLEAN : CheckItem(j, t, hit)
        \/ LockAcquire(j, t)
        \/ LockedInsert(j, t)
        \/ LockRelease(j, t)
        \/ AppendItem(j, t)
        \/ SortNews(j, t)
        \/ FinishSweep(j, t)
        \/ UpdateAllFinish(j)

\* What the threads are owed: while one of them can take a step, a pool
\* thread with a topic to take, a fetch in flight that returns or raises
\* (each request has its timeout, feeds/google.py:29, 68), a thread that is
\* runnable or can have the lock, one of them does.  When update_all is
\* called is up to the scheduler and is owed nothing.
FairLive == WF_vars(ThreadStep)

SpecLive == InitSources /\ [][NextLive]_vars /\ FairLive

\* C32: as long as every fetch returns or raises, a sweep that has begun runs
\* to its end without an exception, whatever its sources did, and an
\* update_all that has begun returns with the completion time recorded.
C32_SweepsTerminate ==
    /\ \A t \in Topics :
           (sweep[<<"sched", t>>].pc \notin {"idle", "done"}) ~>
               (sweep[<<"sched", t>>].pc = "done")
    /\ (job["sched"].pc = "running") ~>
           (job["sched"].pc = "idle" /\ api.op = "update_all" /\ last_updated = now)
    /\ [](\A t \in Topics : sweep[<<"sched", t>>].pc \notin {"raised", "unwind"})

\* Both sweeps are past their fetches, one of them after a source raised, and
\* one waits for the lock that the other holds.
C32_Witness ==
    /\ _lock = <<"sched", "t2">>
    /\ sweep[<<"sched", "t1">>].pc = "insert"
    /\ Count(sweep[<<"sched", "t1">>].log, "error") = 1
    /\ sweep[<<"sched", "t1">>].nfut = 0
    /\ job["sched"].pc = "running"

====
